---- MODULE Spec2Model ----
(***************************************************************************)
(* Dose scheduler / injection rotation / health log single-page app.       *)
(*                                                                         *)
(* State: the browser clock, localStorage, the page that is mounted and    *)
(* the React state of that page.  One action per event handler; an action  *)
(* is the handler together with the re-render and the effects it causes.   *)
(*                                                                         *)
(* Representation of JavaScript values                                     *)
(*   numbers           integers                                            *)
(*   Date / time       integer clock ticks of one hour (local time line)   *)
(*   ISO string        <<"iso", t>>  (toISOString / new Date(iso))         *)
(*   text              sequence of one-character strings                   *)
(*   undefined (text)  Undefined                                           *)
(*   routine id        <<"r", n>>   ("r1", `r${Date.now()}`)               *)
(*   routine name      <<"Routine", n>>                                    *)
(*   object            record; a property that JSON dropped is absent      *)
(***************************************************************************)
EXTENDS Integers, Sequences, FiniteSets, TLC

VARIABLES
  now,      \* value Date.now() returns, in ticks
  page,     \* the mounted page: "none", "scheduler", "rotation", "health", "dashboard",
            \* "crashed", or "mounting" while a page mounts effect by effect
  storage,  \* localStorage: key -> stored item
  sched,    \* React state of SchedulerPage
  rot,      \* React state of RotationPage
  health,   \* React state of HealthPage
  dash      \* React state of HomeDashboard

vars == <<now, page, storage, sched, rot, health, dash>>

(***************************************************************************)
(* Bounds of the model                                                     *)
(***************************************************************************)
MaxTicks == 1        \* the clock advances at most this many ticks
MaxRotLogs == 2      \* injection logs kept by the rotation page
MaxRecords == 2      \* log records kept in storage, all collections together
MaxRoutines == 5     \* routines kept by the scheduler
MaxMalformed == 2    \* storage keys that hold something when the browser starts
MaxStored == 3       \* records of each collection left by earlier sessions
MaxMonthSteps == 16  \* months the calendars are moved away from the current one
MaxWeekSteps == 33   \* weeks the week view is moved away from the current one
MaxTimeline == 2     \* stored records of each kind the dashboard reads

(***************************************************************************)
(* Clock                                                                   *)
(***************************************************************************)
MS_PER_DAY == 1000 * 60 * 60 * 24
MsPerTick == 1000 * 60 * 60
TicksPerDay == MS_PER_DAY \div MsPerTick

\* The clock when the app is opened: 00:00 of day 10001, so that a date
\* 10000 days in the past is day 1.
T0 == 10001 * TicksPerDay

Unmounted == [unmounted |-> TRUE]
Undefined == <<"undefined">>
NullId == "null"
Null == [null |-> TRUE]

ISO(t) == <<"iso", t>>
getTime(iso) == iso[2]
\* a text that new Date() cannot parse: the Date is invalid, getTime() is NaN
InvalidISO == <<"invalid", 0>>
validISO(iso) == iso[1] = "iso"
\* toYMD(new Date(iso)): the local day, "NaN-NaN-NaN" for an invalid Date
NaNDay == -2
dayKeyOfISO(iso) == IF validISO(iso) THEN iso[2] \div TicksPerDay ELSE NaNDay
\* new Date(a).getTime() - new Date(b).getTime() as a sort comparator reads
\* it: a NaN result counts as 0
timeDiff(a, b) == IF validISO(a) /\ validISO(b) THEN getTime(a) - getTime(b) ELSE 0

\* new Date(`${ymd}T${hhmm}`): local date and time of day to a Date
dateOf(ymd, hhmm) == ymd * TicksPerDay + hhmm
\* toYMD / todayYMD: the local calendar day of a Date
toYMD(t) == t \div TicksPerDay
\* nowTimeHHMM: the local time of day of a Date
timeOfDay(t) == t % TicksPerDay

\* String.prototype.trim
RECURSIVE trimStart(_)
trimStart(s) == IF s # <<>> /\ Head(s) = " " THEN trimStart(Tail(s)) ELSE s
RECURSIVE trimEnd(_)
trimEnd(s) ==
  IF s # <<>> /\ s[Len(s)] = " " THEN trimEnd(SubSeq(s, 1, Len(s) - 1)) ELSE s
trim(s) == trimEnd(trimStart(s))

(***************************************************************************)
(* localStorage and JSON                                                   *)
(***************************************************************************)
KEY_ROUTINES == "ds_routines_v4"
KEY_DS_LOGS == "ds_logs_v4"
KEY_RT_LOGS == "rt_logs_v1"
KEY_HEALTH == "health_entries_v2"
KEY_DASH_DOSES == "ds_logs"
KEY_DASH_HEALTH == "hb_logs_v1"

StorageKeys ==
  {KEY_ROUTINES, KEY_DS_LOGS, KEY_RT_LOGS, KEY_HEALTH, KEY_DASH_DOSES, KEY_DASH_HEALTH}

\* Stored items.  getItem of a key never written is null; the other kinds
\* are strings: "", text that is not JSON, the JSON text of an object that is
\* not an array, and the JSON text of an array.
NoItem == [kind |-> "null"]
EmptyItem == [kind |-> "empty"]
GarbageItem == [kind |-> "garbage"]
ObjectItem == [kind |-> "object"]
ArrayItem(items) == [kind |-> "array", items |-> items]
JsonNull == [jsonNull |-> TRUE]

\* The properties that can hold undefined
OptionalFields ==
  {"doseMg", "notes", "reconstitutedOn", "weightKg", "restingHr", "bpSys", "bpDia",
   "waistCm", "hipsCm", "chestCm", "exerciseType", "exerciseMinutes",
   "exerciseIntensity"}

\* obj.f : undefined when the property is absent
Field(obj, f) == IF f \in DOMAIN obj THEN obj[f] ELSE Undefined

\* JSON.stringify of an object omits the properties whose value is undefined
stringifyObject(obj) ==
  LET kept == {f \in DOMAIN obj : f \notin OptionalFields \/ obj[f] # Undefined}
  IN  [f \in kept |-> obj[f]]

\* JSON.stringify(array)
JSON_stringify(arr) == ArrayItem([i \in DOMAIN arr |-> stringifyObject(arr[i])])

\* `if (raw)`: null and "" are falsy
Truthy(raw) == raw.kind \notin {"null", "empty"}
\* JSON.parse throws a SyntaxError
parseThrows(raw) == raw.kind = "garbage"
\* Array.isArray(JSON.parse(raw))
parsesToArray(raw) == raw.kind = "array"
\* JSON.parse(raw), for the text of an array
JSON_parse_truncated(raw) == SubSeq(raw.items, 1, Len(raw.items) - 1)
JSON_parse(raw) == raw.items
\* every element is an object (for ... of and l.field do not throw)
allObjects(arr) == \A i \in DOMAIN arr : arr[i] # JsonNull

(***************************************************************************)
(* Calendar: Date's local fields of a day number (days since 1970-01-01)   *)
(***************************************************************************)
Years == 1990..2009

isLeapYear(y) == (y % 4 = 0 /\ y % 100 # 0) \/ y % 400 = 0

\* endOfMonth(date).getDate(): new Date(y, m + 1, 0).getDate(), m = 0..11
daysInMonthOf(y, m) ==
  IF m = 1 THEN (IF isLeapYear(y) THEN 29 ELSE 28)
  ELSE IF m \in {3, 5, 8, 10} THEN 30
  ELSE 31

leapDaysBefore(y) == ((y - 1) \div 4) - ((y - 1) \div 100) + ((y - 1) \div 400)
daysBeforeYear(y) == 365 * (y - 1970) + leapDaysBefore(y) - leapDaysBefore(1970)
RECURSIVE daysBeforeMonth(_, _)
daysBeforeMonth(y, m) ==
  IF m = 0 THEN 0 ELSE daysBeforeMonth(y, m - 1) + daysInMonthOf(y, m - 1)

\* the day `${y}-${pad2(m + 1)}-${pad2(d)}` names, i.e. toYMD(new Date(y, m, d))
dayNumber(y, m, d) == daysBeforeYear(y) + daysBeforeMonth(y, m) + d - 1

\* Date.prototype.getDay (Sunday = 0); 1970-01-01 was a Thursday
getDay(day) == (day + 4) % 7
\* Date.prototype.getFullYear / getMonth / getDate
\* (a year has at most 366 days and a month at most 31, which leaves two
\* candidates for each within Years)
getFullYear(day) ==
  LET y0 == 1970 + (day \div 366)
  IN  CHOOSE y \in {y0, y0 + 1} \cap Years :
        daysBeforeYear(y) <= day /\ day < daysBeforeYear(y + 1)
getMonth(day) ==
  LET y == getFullYear(day)
      m0 == (day - daysBeforeYear(y)) \div 31
  IN  CHOOSE m \in {m0, m0 + 1} \cap (0..11) :
        /\ dayNumber(y, m, 1) <= day
        /\ day < dayNumber(y, m, 1) + daysInMonthOf(y, m)
getDate(day) == day - dayNumber(getFullYear(day), getMonth(day), 1) + 1

\* mondayIndex(jsDay)
mondayIndex(jsDay) == (jsDay + 6) % 7

\* A Date kept as calendarMonth is read for its year and month only
monthOfDate(t) == [year |-> getFullYear(toYMD(t)), month |-> getMonth(toYMD(t))]
\* new Date(year, month, 1), month outside 0..11 carried into the year
newMonth(year, month) == [year |-> year + (month \div 12), month |-> month % 12]
monthIndex(cm) == cm.year * 12 + cm.month

\* a cell without day: {}
EmptyCell == <<>>

\* calendarCells / monthGrid
calendarCells_floor(cm) ==
  LET offset == mondayIndex(getDay(dayNumber(cm.year, cm.month, 1)))
      daysInMonth == daysInMonthOf(cm.year, cm.month)
      totalCells == ((offset + daysInMonth) \div 7) * 7
  IN  [i \in 1..totalCells |->
         LET dayNum == (i - 1) - offset + 1
         IN  IF dayNum >= 1 /\ dayNum <= daysInMonth
             THEN [ymd |-> dayNumber(cm.year, cm.month, dayNum), dayNum |-> dayNum]
             ELSE EmptyCell]
calendarCells_shifted(cm) ==
  LET offset == mondayIndex(getDay(dayNumber(cm.year, cm.month, 1)))
      daysInMonth == daysInMonthOf(cm.year, cm.month)
      totalCells == ((offset + daysInMonth + 6) \div 7) * 7
  IN  [i \in 1..totalCells |->
         LET dayNum == (i - 1) - offset + 1
         IN  IF dayNum >= 1 /\ dayNum <= daysInMonth
             THEN [ymd |-> dayNumber(cm.year, cm.month + 1, dayNum), dayNum |-> dayNum]
             ELSE EmptyCell]
calendarCells(cm) ==
  LET offset == mondayIndex(getDay(dayNumber(cm.year, cm.month, 1)))
      daysInMonth == daysInMonthOf(cm.year, cm.month)
      \* Math.ceil((offset + daysInMonth) / 7) * 7
      totalCells == ((offset + daysInMonth + 6) \div 7) * 7
  IN  [i \in 1..totalCells |->
         LET dayNum == (i - 1) - offset + 1
         IN  IF dayNum >= 1 /\ dayNum <= daysInMonth
             THEN [ymd |-> dayNumber(cm.year, cm.month, dayNum), dayNum |-> dayNum]
             ELSE EmptyCell]

\* the month navigation stays within MaxMonthSteps months of the current one
monthInRange(cm) ==
  /\ monthIndex(cm) - monthIndex(monthOfDate(now)) <= MaxMonthSteps
  /\ monthIndex(monthOfDate(now)) - monthIndex(cm) <= MaxMonthSteps

(***************************************************************************)
(* Routines                                                                *)
(***************************************************************************)
RoutineId(n) == <<"r", n>>
RoutineName(n) == <<"Routine", n>>
DEFAULT_ROUTINES ==
  [n \in 1..5 |-> [id |-> RoutineId(n), name |-> RoutineName(n)]]

\* routineById[id] ?? routines[0].  routineById is built by
\* routines.forEach((r) => (m[r.id] = r)): the last routine with an id wins.
\* Only used with a non-empty list.
routineOrFirst(routines, id) ==
  LET hits == {i \in DOMAIN routines : routines[i].id = id}
  IN  IF hits = {} THEN routines[1]
      ELSE routines[CHOOSE i \in hits : \A j \in hits : j <= i]

(***************************************************************************)
(* RotationPage                                                            *)
(***************************************************************************)
SPOTS == <<
  [id |-> "f_abd_L",   label |-> "Abdomen - Left",           view |-> "front", group |-> "abdomen"],
  [id |-> "f_abd_R",   label |-> "Abdomen - Right",          view |-> "front", group |-> "abdomen"],
  [id |-> "f_thigh_L", label |-> "Thigh - Left",             view |-> "front", group |-> "thigh"],
  [id |-> "f_thigh_R", label |-> "Thigh - Right",            view |-> "front", group |-> "thigh"],
  [id |-> "f_arm_L",   label |-> "Upper arm - Left",         view |-> "front", group |-> "arm"],
  [id |-> "f_arm_R",   label |-> "Upper arm - Right",        view |-> "front", group |-> "arm"],
  [id |-> "b_glute_L", label |-> "Glute - Left",             view |-> "back",  group |-> "glute"],
  [id |-> "b_glute_R", label |-> "Glute - Right",            view |-> "back",  group |-> "glute"],
  [id |-> "b_arm_L",   label |-> "Upper arm (back) - Left",  view |-> "back",  group |-> "arm"],
  [id |-> "b_arm_R",   label |-> "Upper arm (back) - Right", view |-> "back",  group |-> "arm"],
  [id |-> "b_thigh_L", label |-> "Thigh (back) - Left",      view |-> "back",  group |-> "thigh"],
  [id |-> "b_thigh_R", label |-> "Thigh (back) - Right",     view |-> "back",  group |-> "thigh"] >>

Views == {"front", "back"}

NEVER_USED_DAYS == 9999

\* daysAgoFromISO(iso); dateNow is the value its Date.now() returns
\* Math.round in the place of Math.floor
daysAgoFromISO_rounded(iso, dateNow) ==
  IF iso = Undefined THEN NEVER_USED_DAYS
  ELSE (2 * (dateNow - getTime(iso)) + TicksPerDay) \div (2 * TicksPerDay)
daysAgoFromISO(iso, dateNow) ==
  IF iso = Undefined THEN NEVER_USED_DAYS
  ELSE (dateNow - getTime(iso)) \div TicksPerDay

\* SPOTS.filter((s) => s.view === view)
spotsForView(view) ==
  LET inView(s) == s.view = view IN SelectSeq(SPOTS, inView)

\* for (const l of logs) if (!m[l.spotId]) m[l.spotId] = l.injectedAtISO
RECURSIVE lastUsedLoop(_, _)
lastUsedLoop(logs, m) ==
  IF logs = <<>> THEN m
  ELSE LET l == Head(logs)
       IN  lastUsedLoop(Tail(logs),
             IF l.spotId \in DOMAIN m THEN m ELSE m @@ (l.spotId :> l.injectedAtISO))

lastUsedBySpot(logs) == lastUsedLoop(logs, <<>>)

\* the comparator of candidates.sort
compareDays_ascending(a, b) == a.days - b.days
compareDays(a, b) == b.days - a.days

\* Array.prototype.sort is stable: an element is placed behind every element
\* that does not compare greater than it
RECURSIVE insertSorted_unstable(_, _)
insertSorted_unstable(x, sorted) ==
  IF sorted = <<>> THEN <<x>>
  ELSE IF compareDays(Head(sorted), x) < 0
       THEN <<Head(sorted)>> \o insertSorted_unstable(x, Tail(sorted))
       ELSE <<x>> \o sorted
RECURSIVE insertSorted(_, _)
insertSorted(x, sorted) ==
  IF sorted = <<>> THEN <<x>>
  ELSE IF compareDays(Head(sorted), x) <= 0
       THEN <<Head(sorted)>> \o insertSorted(x, Tail(sorted))
       ELSE <<x>> \o sorted

RECURSIVE sortCandidates(_)
sortCandidates(cs) ==
  IF cs = <<>> THEN <<>>
  ELSE insertSorted(cs[Len(cs)], sortCandidates(SubSeq(cs, 1, Len(cs) - 1)))

\* the candidates of the recommended memo, before sorting
candidatesOf(view, logs, dateNow) ==
  LET spots == spotsForView(view)
      m == lastUsedBySpot(logs)
  IN  [i \in DOMAIN spots |->
         [s |-> spots[i], days |-> daysAgoFromISO(Field(m, spots[i].id), dateNow)]]

\* a memo whose result also depends on something that is not an input:
\* whether the sheet is open while it is evaluated
recommendedOf_hidden(view, logs, dateNow) ==
  LET candidates == sortCandidates(candidatesOf(view, logs, dateNow))
  IN  IF candidates = <<>> THEN Null
      ELSE IF page = "rotation" /\ rot.sheetOpen THEN candidates[Len(candidates)]
      ELSE candidates[1]

\* the recommended memo: candidates[0] ?? null
recommendedOf(view, logs, dateNow) ==
  LET candidates == sortCandidates(candidatesOf(view, logs, dateNow))
  IN  IF candidates = <<>> THEN Null ELSE candidates[1]

\* SPOTS.find((s) => s.id === selectedSpotId) ?? null
selectedSpot(selectedSpotId) ==
  IF selectedSpotId = NullId \/ ~\E i \in DOMAIN SPOTS : SPOTS[i].id = selectedSpotId
  THEN Null
  ELSE SPOTS[CHOOSE i \in DOMAIN SPOTS :
               /\ SPOTS[i].id = selectedSpotId
               /\ \A j \in DOMAIN SPOTS : SPOTS[j].id = selectedSpotId => i <= j]

\* logs.slice(0, 12), the logs the page lists
RECENT_LIMIT == 12
recent(logs) == SubSeq(logs, 1, IF Len(logs) < RECENT_LIMIT THEN Len(logs) ELSE RECENT_LIMIT)

\* The state after the first render: the useState initial values
RotInitialState ==
  [view |-> "front",
   routines |-> DEFAULT_ROUTINES,
   selectedRoutineId |-> DEFAULT_ROUTINES[1].id,
   logs |-> <<>>,
   sheetOpen |-> FALSE,
   selectedSpotId |-> NullId,
   sheetRoutineId |-> DEFAULT_ROUTINES[1].id,
   sheetDateYMD |-> toYMD(now),
   sheetTimeHHMM |-> timeOfDay(now),
   sheetDoseMg |-> <<>>,
   sheetNotes |-> <<>>,
   recommended |-> recommendedOf("front", <<>>, now),
   recommendedAt |-> now]

\* A render after view or logs changed re-evaluates the recommended memo
\* (recommendedAt records the clock it read); the effect on [logs] then
\* writes the logs back
RotRender(st) ==
  [st EXCEPT !.recommended = recommendedOf(st.view, st.logs, now),
             !.recommendedAt = now]

RotSaved(st) == [storage EXCEPT ![KEY_RT_LOGS] = JSON_stringify(st.logs)]

\* What the load effect and the following render make of a stored item when
\* the page parses it unguarded: `if (raw) setX(JSON.parse(raw))`
\*   "skip"         the item is null or "": the initial state stays
\*   "throws"       JSON.parse throws inside the effect
\*   "unrenderable" the parsed value is set, and the render that iterates it
\*                  and reads its elements' properties throws
\*   "loaded"       the parsed array becomes the state
loadOutcome(raw) ==
  IF ~Truthy(raw) THEN "skip"
  ELSE IF parseThrows(raw) THEN "throws"
  ELSE IF ~parsesToArray(raw) THEN "unrenderable"
  ELSE IF ~allObjects(JSON_parse(raw)) THEN "unrenderable"
  ELSE "loaded"

\* Mount: first render, load effect, save effect, render of the loaded state,
\* save effect.  from is the page shown before ("none", or the page itself
\* when the browser reloads it).
MountRotationFrom(from) ==
  LET sr == storage[KEY_ROUTINES]
      sl == storage[KEY_RT_LOGS]
      outcomes == {loadOutcome(sr), loadOutcome(sl)}
      loaded == [RotInitialState EXCEPT
                   !.routines = IF loadOutcome(sr) = "loaded" THEN JSON_parse(sr) ELSE @,
                   !.logs = IF loadOutcome(sl) = "loaded" THEN JSON_parse(sl) ELSE @]
  IN  /\ page = from
      /\ UNCHANGED <<now, sched, health, dash>>
      /\ IF "throws" \in outcomes
         THEN \* the load effect throws: the error page replaces the page
              /\ page' = "crashed"
              /\ rot' = Unmounted
              /\ UNCHANGED storage
         ELSE IF "unrenderable" \in outcomes
         THEN \* the save effect of the first render has written the initial
              \* logs; the render of the loaded value throws
              /\ page' = "crashed"
              /\ rot' = Unmounted
              /\ storage' = [storage EXCEPT ![KEY_RT_LOGS] = JSON_stringify(<<>>)]
         ELSE /\ page' = "rotation"
              /\ rot' = RotRender(loaded)
              /\ storage' = RotSaved(loaded)

MountRotation == MountRotationFrom("none")
ReloadRotation == MountRotationFrom("rotation")

\* Leaving the page (navigation) discards its state
Unmount ==
  /\ page # "none"
  /\ page' = "none"
  /\ sched' = Unmounted
  /\ rot' = Unmounted
  /\ health' = Unmounted
  /\ dash' = Unmounted
  /\ UNCHANGED <<now, storage>>

\* setView(v)
setView(v) ==
  /\ page = "rotation"
  /\ rot' = IF v = rot.view THEN rot ELSE RotRender([rot EXCEPT !.view = v])
  /\ UNCHANGED <<now, page, storage, sched, health, dash>>

\* openSheet(spot)
openSheet(spot) ==
  /\ page = "rotation"
  /\ spot.view = rot.view
  /\ rot' = [rot EXCEPT !.selectedSpotId = spot.id,
                        !.sheetOpen = TRUE,
                        !.sheetRoutineId = rot.selectedRoutineId,
                        !.sheetDateYMD = toYMD(now),
                        !.sheetTimeHHMM = timeOfDay(now),
                        !.sheetDoseMg = <<>>,
                        !.sheetNotes = <<>>]
  /\ UNCHANGED <<now, page, storage, sched, health, dash>>

\* closeSheet()
closedSheet(st) == [st EXCEPT !.sheetOpen = FALSE, !.selectedSpotId = NullId]

closeSheet ==
  /\ page = "rotation"
  /\ rot.sheetOpen
  /\ rot' = closedSheet(rot)
  /\ UNCHANGED <<now, page, storage, sched, health, dash>>

\* the sheet's inputs
setSheetDateYMD(ymd) ==
  /\ page = "rotation"
  /\ rot.sheetOpen
  /\ rot' = [rot EXCEPT !.sheetDateYMD = ymd]
  /\ UNCHANGED <<now, page, storage, sched, health, dash>>

setSheetTimeHHMM(hhmm) ==
  /\ page = "rotation"
  /\ rot.sheetOpen
  /\ rot' = [rot EXCEPT !.sheetTimeHHMM = hhmm]
  /\ UNCHANGED <<now, page, storage, sched, health, dash>>

setSheetRoutineId(id) ==
  /\ page = "rotation"
  /\ rot.sheetOpen
  /\ rot' = [rot EXCEPT !.sheetRoutineId = id]
  /\ UNCHANGED <<now, page, storage, sched, health, dash>>

setSheetDoseMg(text) ==
  /\ page = "rotation"
  /\ rot.sheetOpen
  /\ rot' = [rot EXCEPT !.sheetDoseMg = text]
  /\ UNCHANGED <<now, page, storage, sched, health, dash>>

\* the item logInjection builds
injectionItem(st) ==
  LET spot == selectedSpot(st.selectedSpotId)
      r == routineOrFirst(st.routines, st.sheetRoutineId)
  IN  [id |-> now,
       spotId |-> spot.id,
       spotLabel |-> spot.label,
       view |-> spot.view,
       routineId |-> r.id,
       routineName |-> r.name,
       injectedAtISO |-> ISO(dateOf(st.sheetDateYMD, st.sheetTimeHHMM)),
       doseMg |-> IF trim(st.sheetDoseMg) # <<>> THEN trim(st.sheetDoseMg) ELSE Undefined,
       notes |-> IF trim(st.sheetNotes) # <<>> THEN trim(st.sheetNotes) ELSE Undefined,
       createdAtISO |-> ISO(now)]

\* logInjection()
logInjection ==
  /\ page = "rotation"
  /\ selectedSpot(rot.selectedSpotId) # Null
  /\ rot.routines # <<>>
  /\ Len(rot.logs) < MaxRotLogs
  /\ LET st == RotRender(closedSheet([rot EXCEPT !.logs = <<injectionItem(rot)>> \o @]))
     IN  /\ rot' = st
         /\ storage' = RotSaved(st)
  /\ UNCHANGED <<now, page, sched, health, dash>>

\* deleteLog(id), from the list of recent logs
rotDeleteLog(id) ==
  /\ page = "rotation"
  /\ \E i \in DOMAIN recent(rot.logs) : rot.logs[i].id = id
  /\ LET keep(x) == x.id # id
         st == RotRender([rot EXCEPT !.logs = SelectSeq(@, keep)])
     IN  /\ rot' = st
         /\ storage' = RotSaved(st)
  /\ UNCHANGED <<now, page, sched, health, dash>>

\* Time passes
Tick ==
  /\ now < T0 + MaxTicks
  /\ now' = now + 1
  /\ UNCHANGED <<page, storage, sched, rot, health, dash>>

(***************************************************************************)
(* SchedulerPage                                                           *)
(***************************************************************************)
NoDay == -1                     \* selectedDayYMD === null / an empty date input
DAY_TIME_DEFAULT == 8           \* "08:00"
AMOUNT_DEFAULT == <<"0", ".", "2", "5">>
TOAST_SAVED == "Saved"

\* toYMD(new Date(l.doseDateTime))
doseDay(l) == dayKeyOfISO(l.doseDateTime)

\* map[key].sort((a, b) => time(a[f]) - time(b[f])): stable, ascending
insertByTime_replacing(x, sorted, f) == <<x>>
RECURSIVE insertByTime(_, _, _)
insertByTime(x, sorted, f) ==
  IF sorted = <<>> THEN <<x>>
  ELSE IF timeDiff(Head(sorted)[f], x[f]) <= 0
       THEN <<Head(sorted)>> \o insertByTime(x, Tail(sorted), f)
       ELSE <<x>> \o sorted
RECURSIVE sortByTime(_, _)
sortByTime(items, f) ==
  IF items = <<>> THEN <<>>
  ELSE insertByTime(items[Len(items)], sortByTime(SubSeq(items, 1, Len(items) - 1), f), f)

\* logsByDay: the logs of each day that has one, in logs order, then sorted
logsByDay(logs) ==
  LET days == {doseDay(logs[i]) : i \in DOMAIN logs}
  IN  [d \in days |->
         LET onDay(l) == doseDay(l) = d
         IN  sortByTime(SelectSeq(logs, onDay), "doseDateTime")]

\* selectedDayYMD ? logsByDay[selectedDayYMD] ?? [] : []
dayLogs(st) ==
  IF st.selectedDayYMD = NoDay THEN <<>>
  ELSE IF st.selectedDayYMD \in DOMAIN logsByDay(st.logs)
       THEN logsByDay(st.logs)[st.selectedDayYMD]
       ELSE <<>>

SchedInitialState ==
  [routines |-> DEFAULT_ROUTINES,
   selectedRoutineId |-> DEFAULT_ROUTINES[1].id,
   frequency |-> "weekly",
   amountMg |-> AMOUNT_DEFAULT,
   customAmountMg |-> <<>>,
   doseDateTimeLocal |-> now,
   logs |-> <<>>,
   calendarMonth |-> monthOfDate(now),
   selectedDayYMD |-> NoDay,
   dayTime |-> DAY_TIME_DEFAULT,
   dayRoutineId |-> DEFAULT_ROUTINES[1].id,
   pendingMg |-> Undefined,
   pendingIsCustom |-> FALSE,
   dayCustomMg |-> <<>>,
   toast |-> NullId]

\* the two save effects; each runs after a render in which its dependency
\* changed (and after the first render)
saveLogs_never(st) == storage
saveLogs(st) == [storage EXCEPT ![KEY_DS_LOGS] = JSON_stringify(st.logs)]
saveRoutines(st) == [storage EXCEPT ![KEY_ROUTINES] = JSON_stringify(st.routines)]
SchedSaved(st) ==
  [storage EXCEPT ![KEY_ROUTINES] = JSON_stringify(st.routines),
                  ![KEY_DS_LOGS] = JSON_stringify(st.logs)]

MountSchedulerFrom(from) ==
  LET sr == storage[KEY_ROUTINES]
      sl == storage[KEY_DS_LOGS]
      outcomes == {loadOutcome(sr), loadOutcome(sl)}
      loaded == [SchedInitialState EXCEPT
                   !.routines = IF loadOutcome(sr) = "loaded" THEN JSON_parse(sr) ELSE @,
                   !.logs = IF loadOutcome(sl) = "loaded" THEN JSON_parse(sl) ELSE @]
  IN  /\ page = from
      /\ UNCHANGED <<now, rot, health, dash>>
      /\ IF "throws" \in outcomes
         THEN /\ page' = "crashed"
              /\ sched' = Unmounted
              /\ UNCHANGED storage
         ELSE IF "unrenderable" \in outcomes
         THEN \* the save effects of the first render have written the
              \* initial state; the render of the loaded value throws
              /\ page' = "crashed"
              /\ sched' = Unmounted
              /\ storage' = SchedSaved(SchedInitialState)
         ELSE /\ page' = "scheduler"
              /\ sched' = loaded
              /\ storage' = SchedSaved(loaded)

MountScheduler == MountSchedulerFrom("none")
ReloadScheduler == MountSchedulerFrom("scheduler")

\* the item addLogForRoutine builds
doseItem(st, dateTimeLocal, amount, routineId) ==
  LET r == routineOrFirst(st.routines, routineId)
  IN  [id |-> now,
       routineId |-> r.id,
       routineName |-> r.name,
       amountMg |-> amount,
       frequency |-> st.frequency,
       doseDateTime |-> ISO(dateTimeLocal),
       createdAt |-> ISO(now)]

\* [...prev, item] in the place of [item, ...prev]
addLogForRoutine_appends(st, dateTimeLocal, mg, routineId) ==
  IF trim(mg) = <<>> THEN st.logs
  ELSE st.logs \o <<doseItem(st, dateTimeLocal, trim(mg), routineId)>>

\* addLogForRoutine(dateTimeLocal, mg, routineId): the logs it leaves
addLogForRoutine(st, dateTimeLocal, mg, routineId) ==
  IF trim(mg) = <<>> THEN st.logs
  ELSE <<doseItem(st, dateTimeLocal, trim(mg), routineId)>> \o st.logs

\* the custom amount input
setCustomAmountMg(text) ==
  /\ page = "scheduler"
  /\ sched' = [sched EXCEPT !.customAmountMg = text]
  /\ UNCHANGED <<now, page, storage, rot, health, dash>>

\* logMainForm()
logMainForm ==
  LET mg == IF trim(sched.customAmountMg) # <<>> THEN trim(sched.customAmountMg)
            ELSE sched.amountMg
      after == [sched EXCEPT
                  !.logs = addLogForRoutine(sched, sched.doseDateTimeLocal, mg,
                                            sched.selectedRoutineId),
                  !.customAmountMg = <<>>,
                  !.toast = TOAST_SAVED]
  IN  /\ page = "scheduler"
      /\ sched' = IF mg = <<>> THEN sched ELSE after
      /\ storage' = IF mg = <<>> THEN storage ELSE saveLogs(after)
      /\ UNCHANGED <<now, page, rot, health, dash>>

\* deleteLog(id), offered for the logs of the open day
schedDeleteLog(id) ==
  LET kept(x) == x.id # id
      after == [sched EXCEPT !.logs = SelectSeq(sched.logs, kept)]
  IN  /\ page = "scheduler"
      /\ \E i \in DOMAIN dayLogs(sched) : dayLogs(sched)[i].id = id
      /\ sched' = after
      /\ storage' = saveLogs(after)
      /\ UNCHANGED <<now, page, rot, health, dash>>

\* the routine picker of the main form
setSelectedRoutineId(id) ==
  /\ page = "scheduler"
  /\ \E i \in DOMAIN sched.routines : sched.routines[i].id = id
  /\ sched' = [sched EXCEPT !.selectedRoutineId = id]
  /\ UNCHANGED <<now, page, storage, rot, health, dash>>

\* a rename that also rewrites the name the routine's logs carry
setRoutineName_renamesLogs(id, name) ==
  LET after == [sched EXCEPT
                  !.routines = [i \in DOMAIN sched.routines |->
                                  IF sched.routines[i].id = id
                                  THEN [sched.routines[i] EXCEPT !.name = name]
                                  ELSE sched.routines[i]],
                  !.logs = [i \in DOMAIN sched.logs |->
                              IF sched.logs[i].routineId = id
                              THEN [sched.logs[i] EXCEPT !.routineName = name]
                              ELSE sched.logs[i]]]
  IN  /\ page = "scheduler"
      /\ \E i \in DOMAIN sched.routines : sched.routines[i].id = id
      /\ sched' = after
      /\ storage' = SchedSaved(after)
      /\ UNCHANGED <<now, page, rot, health, dash>>

\* setRoutineName(id, name)
setRoutineName(id, name) ==
  LET after == [sched EXCEPT
                  !.routines = [i \in DOMAIN sched.routines |->
                                  IF sched.routines[i].id = id
                                  THEN [sched.routines[i] EXCEPT !.name = name]
                                  ELSE sched.routines[i]]]
  IN  /\ page = "scheduler"
      /\ \E i \in DOMAIN sched.routines : sched.routines[i].id = id
      /\ sched' = after
      /\ storage' = saveRoutines(after)
      /\ UNCHANGED <<now, page, rot, health, dash>>

\* { ...r, reconstitutedOn: ymd }, ymd being the text of the date input
withReconstitutedOn(r, ymd) ==
  [f \in DOMAIN r \cup {"reconstitutedOn"} |->
     IF f = "reconstitutedOn" THEN <<"ymd", ymd>> ELSE r[f]]

\* setRoutineReconstitutedOn(id, ymd)
setRoutineReconstitutedOn(id, ymd) ==
  LET after == [sched EXCEPT
                  !.routines = [i \in DOMAIN sched.routines |->
                                  IF sched.routines[i].id = id
                                  THEN withReconstitutedOn(sched.routines[i], ymd)
                                  ELSE sched.routines[i]]]
  IN  /\ page = "scheduler"
      /\ \E i \in DOMAIN sched.routines : sched.routines[i].id = id
      /\ sched' = after
      /\ storage' = saveRoutines(after)
      /\ UNCHANGED <<now, page, rot, health, dash>>

\* addRoutine()
addRoutine ==
  LET newId == RoutineId(now)
      nextNum == Len(sched.routines) + 1
      after == [sched EXCEPT
                  !.routines = Append(@, [id |-> newId, name |-> RoutineName(nextNum)]),
                  !.selectedRoutineId = newId,
                  !.dayRoutineId = newId]
  IN  /\ page = "scheduler"
      /\ sched' = after
      /\ storage' = saveRoutines(after)
      /\ UNCHANGED <<now, page, rot, health, dash>>

\* the state deleteRoutine(id) leaves when it takes effect
afterDeleteRoutine(st, id) ==
  LET other(r) == r.id # id
      remaining == SelectSeq(st.routines, other)
      notOf(l) == l.routineId # id
      \* remaining[0].id throws a TypeError when nothing remains: the handler
      \* ends there, after setRoutines(remaining) and before setLogs
      throws == remaining = <<>> /\ (st.selectedRoutineId = id \/ st.dayRoutineId = id)
  IN  IF throws THEN [st EXCEPT !.routines = remaining]
      ELSE [st EXCEPT
              !.routines = remaining,
              !.selectedRoutineId = IF @ = id THEN remaining[1].id ELSE @,
              !.dayRoutineId = IF @ = id THEN remaining[1].id ELSE @,
              !.logs = SelectSeq(@, notOf)]

\* deleteRoutine(id), offered for the routines of the editor
deleteRoutine(id) ==
  /\ page = "scheduler"
  /\ \E i \in DOMAIN sched.routines : sched.routines[i].id = id
  /\ IF Len(sched.routines) <= 1
     THEN UNCHANGED <<sched, storage>>
     ELSE /\ sched' = afterDeleteRoutine(sched, id)
          /\ storage' = SchedSaved(afterDeleteRoutine(sched, id))
  /\ UNCHANGED <<now, page, rot, health, dash>>

\* openDay(ymd)
openDay(ymd) ==
  /\ page = "scheduler"
  /\ sched' = [sched EXCEPT !.selectedDayYMD = ymd,
                            !.dayTime = DAY_TIME_DEFAULT,
                            !.dayRoutineId = sched.selectedRoutineId,
                            !.pendingMg = Undefined,
                            !.pendingIsCustom = FALSE,
                            !.dayCustomMg = <<>>]
  /\ UNCHANGED <<now, page, storage, rot, health, dash>>

\* closing the day sheet: setSelectedDayYMD(null)
closeDay ==
  /\ page = "scheduler"
  /\ sched.selectedDayYMD # NoDay
  /\ sched' = [sched EXCEPT !.selectedDayYMD = NoDay]
  /\ UNCHANGED <<now, page, storage, rot, health, dash>>

\* isValidMgText(s): /^(\d+(\.\d+)?)$/.test(s.trim())
Digits == {"0", "1", "2", "3", "4", "5", "6", "7", "8", "9"}
allDigits(s) == s # <<>> /\ \A i \in DOMAIN s : s[i] \in Digits
isValidMgText_any(s) == TRUE
isValidMgText(s) ==
  LET t == trim(s)
  IN  \/ allDigits(t)
      \/ \E k \in DOMAIN t :
           /\ t[k] = "."
           /\ allDigits(SubSeq(t, 1, k - 1))
           /\ allDigits(SubSeq(t, k + 1, Len(t)))

\* the day sheet's custom amount input
setDayCustomMg(text) ==
  /\ page = "scheduler"
  /\ sched.selectedDayYMD # NoDay
  /\ sched' = [sched EXCEPT !.dayCustomMg = text]
  /\ UNCHANGED <<now, page, storage, rot, health, dash>>

\* pickPresetDose(mg)
pickPresetDose(mg) ==
  /\ page = "scheduler"
  /\ sched.selectedDayYMD # NoDay
  /\ sched' = [sched EXCEPT !.pendingMg = mg, !.pendingIsCustom = FALSE]
  /\ UNCHANGED <<now, page, storage, rot, health, dash>>

\* pickCustomDose()
pickCustomDose ==
  /\ page = "scheduler"
  /\ sched.selectedDayYMD # NoDay
  /\ sched' = IF trim(sched.dayCustomMg) = <<>> THEN sched
              ELSE IF ~isValidMgText(sched.dayCustomMg) THEN sched
              ELSE [sched EXCEPT !.pendingMg = trim(sched.dayCustomMg),
                                 !.pendingIsCustom = TRUE]
  /\ UNCHANGED <<now, page, storage, rot, health, dash>>

\* the time input of the day sheet: a time of day, or NoDay for the empty
\* text of a cleared input
setDayTime(hhmm) ==
  /\ page = "scheduler"
  /\ sched.selectedDayYMD # NoDay
  /\ sched' = [sched EXCEPT !.dayTime = hhmm]
  /\ UNCHANGED <<now, page, storage, rot, health, dash>>

\* the text parsed as UTC, read in a zone nine hours ahead of it
makeDateTimeLocalForDay_utc(ymd, timeHHMM) ==
  dateOf(ymd, IF timeHHMM = NoDay THEN DAY_TIME_DEFAULT ELSE timeHHMM) - 9
\* makeDateTimeLocalForDay(ymd, timeHHMM): a text that is not HH:MM gives 08:00
makeDateTimeLocalForDay(ymd, timeHHMM) ==
  dateOf(ymd, IF timeHHMM = NoDay THEN DAY_TIME_DEFAULT ELSE timeHHMM)

\* a confirm that leaves the picked dose pending
confirmLogNow_keepsPending ==
  LET dt == makeDateTimeLocalForDay(sched.selectedDayYMD, sched.dayTime)
      after == [sched EXCEPT
                  !.logs = addLogForRoutine(sched, dt, sched.pendingMg, sched.dayRoutineId),
                  !.toast = TOAST_SAVED]
      returns == sched.selectedDayYMD = NoDay \/ sched.pendingMg \in {Undefined, <<>>}
  IN  /\ page = "scheduler"
      /\ sched' = IF returns THEN sched ELSE after
      /\ storage' = IF returns THEN storage ELSE saveLogs(after)
      /\ UNCHANGED <<now, page, rot, health, dash>>

\* confirmLogNow(): if (!selectedDayYMD) return; if (!pendingMg) return; ...
confirmLogNow ==
  LET dt == makeDateTimeLocalForDay(sched.selectedDayYMD, sched.dayTime)
      after == [sched EXCEPT
                  !.logs = addLogForRoutine(sched, dt, sched.pendingMg, sched.dayRoutineId),
                  !.toast = TOAST_SAVED,
                  !.pendingMg = Undefined,
                  !.pendingIsCustom = FALSE,
                  !.dayCustomMg = <<>>]
      returns == sched.selectedDayYMD = NoDay \/ sched.pendingMg \in {Undefined, <<>>}
  IN  /\ page = "scheduler"
      /\ sched' = IF returns THEN sched ELSE after
      /\ storage' = IF returns THEN storage ELSE saveLogs(after)
      /\ UNCHANGED <<now, page, rot, health, dash>>

\* < and > of the calendar: new Date(year, month -/+ 1, 1)
schedSetCalendarMonth(delta) ==
  /\ page = "scheduler"
  /\ monthInRange(newMonth(sched.calendarMonth.year, sched.calendarMonth.month + delta))
  /\ sched' = [sched EXCEPT
                !.calendarMonth = newMonth(sched.calendarMonth.year, sched.calendarMonth.month + delta)]
  /\ UNCHANGED <<now, page, storage, rot, health, dash>>

\* the Today button: setCalendarMonth(new Date())
schedCalendarToday ==
  /\ page = "scheduler"
  /\ sched' = [sched EXCEPT !.calendarMonth = monthOfDate(now)]
  /\ UNCHANGED <<now, page, storage, rot, health, dash>>

\* the toast timer fires: setToast(null)
schedToastTimeout ==
  /\ page = "scheduler"
  /\ sched.toast # NullId
  /\ sched' = [sched EXCEPT !.toast = NullId]
  /\ UNCHANGED <<now, page, storage, rot, health, dash>>

(***************************************************************************)
(* HealthPage                                                              *)
(***************************************************************************)
TOAST_DELETED == "Deleted"

\* safeNumText(s): the trimmed text whichever way the pattern test goes
safeNumText(s) == trim(s)
\* text || undefined
orUndefined(text) == IF text = <<>> THEN Undefined ELSE text

\* toYMD(new Date(e.dateTimeISO))
entryDay(e) == dayKeyOfISO(e.dateTimeISO)

\* map[k].sort((a, b) => time(b) - time(a)): stable, newest first
RECURSIVE insertByTimeDesc(_, _)
insertByTimeDesc(x, sorted) ==
  IF sorted = <<>> THEN <<x>>
  ELSE IF timeDiff(x.dateTimeISO, Head(sorted).dateTimeISO) <= 0
       THEN <<Head(sorted)>> \o insertByTimeDesc(x, Tail(sorted))
       ELSE <<x>> \o sorted
RECURSIVE sortByTimeDesc(_)
sortByTimeDesc(items) ==
  IF items = <<>> THEN <<>>
  ELSE insertByTimeDesc(items[Len(items)], sortByTimeDesc(SubSeq(items, 1, Len(items) - 1)))

entriesByDay(entries) ==
  LET days == {entryDay(entries[i]) : i \in DOMAIN entries}
  IN  [d \in days |->
         LET onDay(e) == entryDay(e) = d
         IN  sortByTimeDesc(SelectSeq(entries, onDay))]

\* selectedDayYMD ? entriesByDay[selectedDayYMD] ?? [] : []
dayEntries(st) ==
  IF st.selectedDayYMD = NoDay THEN <<>>
  ELSE IF st.selectedDayYMD \in DOMAIN entriesByDay(st.entries)
       THEN entriesByDay(st.entries)[st.selectedDayYMD]
       ELSE <<>>

HealthInitialState ==
  [entries |-> <<>>,
   toast |-> NullId,
   dateVal |-> toYMD(now),
   timeVal |-> timeOfDay(now),
   weightKg |-> <<>>,
   restingHr |-> <<>>,
   bpSys |-> <<>>,
   bpDia |-> <<>>,
   waistCm |-> <<>>,
   hipsCm |-> <<>>,
   chestCm |-> <<>>,
   exerciseType |-> <<>>,
   exerciseMinutes |-> <<>>,
   exerciseIntensity |-> "low",
   notes |-> <<>>,
   calendarMonth |-> monthOfDate(now),
   selectedDayYMD |-> NoDay]

saveEntries(st) == [storage EXCEPT ![KEY_HEALTH] = JSON_stringify(st.entries)]

\* What the guarded load effect (try / catch, Array.isArray) and the
\* following render make of the stored item
healthLoadOutcome(raw) ==
  IF ~Truthy(raw) THEN "skip"
  ELSE IF parseThrows(raw) THEN "skip"
  ELSE IF ~parsesToArray(raw) THEN "skip"
  ELSE IF ~allObjects(JSON_parse(raw)) THEN "unrenderable"
  ELSE "loaded"

MountHealthFrom(from) ==
  LET raw == storage[KEY_HEALTH]
      loaded == [HealthInitialState EXCEPT
                   !.entries = IF healthLoadOutcome(raw) = "loaded"
                               THEN JSON_parse(raw) ELSE @]
  IN  /\ page = from
      /\ UNCHANGED <<now, sched, rot, dash>>
      /\ IF healthLoadOutcome(raw) = "unrenderable"
         THEN \* the save effect of the first render has written the empty
              \* list; entriesByDay of the loaded value throws
              /\ page' = "crashed"
              /\ health' = Unmounted
              /\ storage' = saveEntries(HealthInitialState)
         ELSE /\ page' = "health"
              /\ health' = loaded
              /\ storage' = saveEntries(loaded)

MountHealth == MountHealthFrom("none")
ReloadHealth == MountHealthFrom("health")

\* the weight input
setWeightKg(text) ==
  /\ page = "health"
  /\ health' = [health EXCEPT !.weightKg = text]
  /\ UNCHANGED <<now, page, storage, sched, rot, dash>>

\* the item saveEntry builds
healthItem(st) ==
  LET safeDate == IF st.dateVal = NoDay THEN toYMD(now) ELSE st.dateVal
      safeTime == IF st.timeVal = NoDay THEN timeOfDay(now) ELSE st.timeVal
      exercised == trim(st.exerciseType) # <<>> \/ trim(st.exerciseMinutes) # <<>>
  IN  [id |-> now,
       dateTimeISO |-> ISO(dateOf(safeDate, safeTime)),
       createdAtISO |-> ISO(now),
       weightKg |-> orUndefined(safeNumText(st.weightKg)),
       restingHr |-> orUndefined(safeNumText(st.restingHr)),
       bpSys |-> orUndefined(safeNumText(st.bpSys)),
       bpDia |-> orUndefined(safeNumText(st.bpDia)),
       waistCm |-> orUndefined(safeNumText(st.waistCm)),
       hipsCm |-> orUndefined(safeNumText(st.hipsCm)),
       chestCm |-> orUndefined(safeNumText(st.chestCm)),
       exerciseType |-> orUndefined(trim(st.exerciseType)),
       exerciseMinutes |-> orUndefined(safeNumText(st.exerciseMinutes)),
       exerciseIntensity |-> IF exercised THEN <<st.exerciseIntensity>> ELSE Undefined,
       notes |-> orUndefined(trim(st.notes))]

\* saveEntry()
saveEntry ==
  LET after == [health EXCEPT !.entries = <<healthItem(health)>> \o @,
                              !.toast = TOAST_SAVED]
  IN  /\ page = "health"
      /\ health' = after
      /\ storage' = saveEntries(after)
      /\ UNCHANGED <<now, page, sched, rot, dash>>

\* openDay(ymd)
healthOpenDay(ymd) ==
  /\ page = "health"
  /\ health' = [health EXCEPT !.selectedDayYMD = ymd]
  /\ UNCHANGED <<now, page, storage, sched, rot, dash>>

\* deleteEntry(id), offered for the entries of the open day
deleteEntry(id) ==
  LET kept(x) == x.id # id
      after == [health EXCEPT !.entries = SelectSeq(@, kept),
                              !.toast = TOAST_DELETED]
  IN  /\ page = "health"
      /\ \E i \in DOMAIN dayEntries(health) : dayEntries(health)[i].id = id
      /\ health' = after
      /\ storage' = saveEntries(after)
      /\ UNCHANGED <<now, page, sched, rot, dash>>

\* < and > of the calendar: new Date(year, month -/+ 1, 1)
healthSetCalendarMonth(delta) ==
  /\ page = "health"
  /\ monthInRange(newMonth(health.calendarMonth.year, health.calendarMonth.month + delta))
  /\ health' = [health EXCEPT
                 !.calendarMonth = newMonth(health.calendarMonth.year, health.calendarMonth.month + delta)]
  /\ UNCHANGED <<now, page, storage, sched, rot, dash>>

\* clearForm()
TOAST_CLEARED == "Cleared"
clearForm ==
  /\ page = "health"
  /\ health' = [health EXCEPT
                  !.weightKg = <<>>, !.restingHr = <<>>, !.bpSys = <<>>, !.bpDia = <<>>,
                  !.waistCm = <<>>, !.hipsCm = <<>>, !.chestCm = <<>>,
                  !.exerciseType = <<>>, !.exerciseMinutes = <<>>,
                  !.exerciseIntensity = "low", !.notes = <<>>,
                  !.toast = TOAST_CLEARED]
  /\ UNCHANGED <<now, page, storage, sched, rot, dash>>

\* a timer that is set for the "Saved" toast only
healthToastTimeout_savedOnly ==
  /\ page = "health"
  /\ health.toast = TOAST_SAVED
  /\ health' = [health EXCEPT !.toast = NullId]
  /\ UNCHANGED <<now, page, storage, sched, rot, dash>>

\* the toast timer fires: setToast(null).  The effect on [toast] sets a timer
\* whenever toast changes to a message, so one is pending while toast is set
healthToastTimeout ==
  /\ page = "health"
  /\ health.toast # NullId
  /\ health' = [health EXCEPT !.toast = NullId]
  /\ UNCHANGED <<now, page, storage, sched, rot, dash>>

(***************************************************************************)
(* HomeDashboard                                                           *)
(***************************************************************************)
\* ymdFromISO(iso)
ymdFromISO(iso) == dayKeyOfISO(iso)

\* the by-day maps: push in collection order, then the stable sort by time
byDay(items, f) ==
  LET days == {ymdFromISO(items[i][f]) : i \in DOMAIN items}
  IN  [d \in days |->
         LET onDay(x) == ymdFromISO(x[f]) = d
         IN  sortByTime(SelectSeq(items, onDay), f)]

dosesByDay(doseLogs) == byDay(doseLogs, "doseDateTime")
injectionsByDay(injLogs) == byDay(injLogs, "injectedAtISO")

\* parseHealthTimeToComparable(timeHHMM), for a time on the hour
parseHealthTimeToComparable(timeHHMM) == timeHHMM * 100

\* map[k].sort by parseHealthTimeToComparable: stable, ascending
RECURSIVE insertByHealthTime(_, _)
insertByHealthTime(x, sorted) ==
  IF sorted = <<>> THEN <<x>>
  ELSE IF parseHealthTimeToComparable(Head(sorted).timeHHMM)
            - parseHealthTimeToComparable(x.timeHHMM) <= 0
       THEN <<Head(sorted)>> \o insertByHealthTime(x, Tail(sorted))
       ELSE <<x>> \o sorted
RECURSIVE sortByHealthTime(_)
sortByHealthTime(items) ==
  IF items = <<>> THEN <<>>
  ELSE insertByHealthTime(items[Len(items)],
                          sortByHealthTime(SubSeq(items, 1, Len(items) - 1)))

\* healthByDay: keyed by h.ymd
healthByDay(healthLogs) ==
  LET days == {healthLogs[i].ymd : i \in DOMAIN healthLogs}
  IN  [d \in days |->
         LET onDay(h) == h.ymd = d
         IN  sortByHealthTime(SelectSeq(healthLogs, onDay))]

\* todayYMD is a memo without dependencies: the day of the first render
DashInitialState ==
  [filter |-> "all",
   todayYMD |-> toYMD(now),
   calendarMonth |-> monthOfDate(now),
   weekAnchor |-> now,
   routines |-> <<>>, doseLogs |-> <<>>, injLogs |-> <<>>, healthLogs |-> <<>>]

\* startOfWeek(date): the Monday of the week, at midnight
startOfWeek_sunday(date) ==
  (toYMD(date) - getDay(toYMD(date))) * TicksPerDay
startOfWeek(date) ==
  (toYMD(date) - mondayIndex(getDay(toYMD(date)))) * TicksPerDay
\* addDays(date, days): setDate(getDate() + days)
addDays(date, days) == date + days * TicksPerDay

\* monthGrid: the code of calendarCells
monthGrid(cm) == calendarCells(cm)

\* weekDays
weekDays(weekAnchor) ==
  LET start == startOfWeek(weekAnchor)
  IN  [i \in 1..7 |-> [date |-> addDays(start, i - 1), ymd |-> toYMD(addDays(start, i - 1))]]

\* < and > of the month view, and of the week view
dashSetCalendarMonth(delta) ==
  /\ page = "dashboard"
  /\ monthInRange(newMonth(dash.calendarMonth.year, dash.calendarMonth.month + delta))
  /\ dash' = [dash EXCEPT
               !.calendarMonth = newMonth(dash.calendarMonth.year, dash.calendarMonth.month + delta)]
  /\ UNCHANGED <<now, page, storage, sched, rot, health>>

dashSetWeekAnchor(days) ==
  /\ page = "dashboard"
  /\ addDays(dash.weekAnchor, days) - now <= MaxWeekSteps * 7 * TicksPerDay
  /\ now - addDays(dash.weekAnchor, days) <= MaxWeekSteps * 7 * TicksPerDay
  /\ dash' = [dash EXCEPT !.weekAnchor = addDays(dash.weekAnchor, days)]
  /\ UNCHANGED <<now, page, storage, sched, rot, health>>

\* the jump-to-today button
dashJumpToday ==
  /\ page = "dashboard"
  /\ dash' = [dash EXCEPT !.calendarMonth = monthOfDate(now), !.weekAnchor = now]
  /\ UNCHANGED <<now, page, storage, sched, rot, health>>

\* the filter chips
FilterModes == {"all", "doses", "injections", "health"}
setFilter(f) ==
  /\ page = "dashboard"
  /\ dash' = [dash EXCEPT !.filter = f]
  /\ UNCHANGED <<now, page, storage, sched, rot, health>>

\* map[ymd] ?? []
bucketOf(map, ymd) == IF ymd \in DOMAIN map THEN map[ymd] ELSE <<>>

\* the kind of timeline item a filter other than "all" keeps
kindOfFilter(f) ==
  IF f = "doses" THEN "dose" ELSE IF f = "injections" THEN "inj" ELSE "health"

\* the todayTimeline memo; of an item the kind, the time and the routine are
\* kept (title and subtitle are display texts of the same record)
todayTimeline(st) ==
  LET doses == bucketOf(dosesByDay(st.doseLogs), st.todayYMD)
      injs == bucketOf(injectionsByDay(st.injLogs), st.todayYMD)
      hlth == bucketOf(healthByDay(st.healthLogs), st.todayYMD)
      all == sortByTime(
               [i \in DOMAIN doses |->
                  [kind |-> "dose", timeISO |-> doses[i].doseDateTime,
                   routineId |-> doses[i].routineId]]
                 \o [i \in DOMAIN injs |->
                       [kind |-> "inj", timeISO |-> injs[i].injectedAtISO,
                        routineId |-> injs[i].routineId]]
                 \o [i \in DOMAIN hlth |->
                       [kind |-> "health",
                        timeISO |-> ISO(dateOf(st.todayYMD, hlth[i].timeHHMM)),
                        routineId |-> <<"health">>]],
               "timeISO")
      ofKind(x) == x.kind = kindOfFilter(st.filter)
  IN  IF st.filter = "all" THEN all ELSE SelectSeq(all, ofKind)

\* dayTotal(ymd)
dayTotal(st, ymd) ==
  LET d == Len(bucketOf(dosesByDay(st.doseLogs), ymd))
      i == Len(bucketOf(injectionsByDay(st.injLogs), ymd))
      h == Len(bucketOf(healthByDay(st.healthLogs), ymd))
  IN  IF st.filter = "doses" THEN d
      ELSE IF st.filter = "injections" THEN i
      ELSE IF st.filter = "health" THEN h
      ELSE d + i + h

\* the dashboard only reads storage
MountDashboard ==
  LET sr == storage[KEY_ROUTINES]
      sd == storage[KEY_DASH_DOSES]
      si == storage[KEY_RT_LOGS]
      sh == storage[KEY_DASH_HEALTH]
      outcomes == {loadOutcome(sr), loadOutcome(sd), loadOutcome(si), loadOutcome(sh)}
      orEmpty(raw) == IF loadOutcome(raw) = "loaded" THEN JSON_parse(raw) ELSE <<>>
  IN  /\ page = "none"
      /\ UNCHANGED <<now, storage, sched, rot, health>>
      /\ IF outcomes \cap {"throws", "unrenderable"} # {}
         THEN /\ page' = "crashed"
              /\ dash' = Unmounted
         ELSE /\ page' = "dashboard"
              /\ dash' = [DashInitialState EXCEPT
                            !.routines = orEmpty(sr),
                            !.doseLogs = orEmpty(sd),
                            !.injLogs = orEmpty(si),
                            !.healthLogs = orEmpty(sh)]

(***************************************************************************)
(* Mounting a page, effect by effect.  While it lasts page is "mounting"   *)
(* and the page's variable holds the phase reached, the state rendered and *)
(* the state updates the load effect has queued.                           *)
(***************************************************************************)
\* the first render: the useState initial values, no effect has run yet
Rendered(initial) == [phase |-> "rendered", state |-> initial, queued |-> initial]
InPhase(v, phase) == page = "mounting" /\ v # Unmounted /\ v.phase = phase

schedFirstRender ==
  /\ page = "none"
  /\ page' = "mounting"
  /\ sched' = Rendered(SchedInitialState)
  /\ UNCHANGED <<now, storage, rot, health, dash>>

\* the load effect: if (sr) setRoutines(JSON.parse(sr)); if (sl) setLogs(...)
schedLoadEffect ==
  LET sr == storage[KEY_ROUTINES]
      sl == storage[KEY_DS_LOGS]
  IN  /\ InPhase(sched, "rendered")
      /\ UNCHANGED <<now, storage, rot, health, dash>>
      /\ IF "throws" \in {loadOutcome(sr), loadOutcome(sl)}
         THEN page' = "crashed" /\ sched' = Unmounted
         ELSE /\ page' = page
              /\ sched' = [sched EXCEPT
                   !.phase = "loaded",
                   !.queued = [sched.state EXCEPT
                      !.routines = IF Truthy(sr) THEN JSON_parse(sr) ELSE @,
                      !.logs = IF Truthy(sl) THEN JSON_parse(sl) ELSE @]]

\* the save effects of the first render: they see the rendered state
schedSaveEffects ==
  /\ InPhase(sched, "loaded")
  /\ sched' = [sched EXCEPT !.phase = "saved"]
  /\ storage' = SchedSaved(sched.state)
  /\ UNCHANGED <<now, page, rot, health, dash>>

\* the render of the queued state and the save effects that follow it
schedReRender ==
  /\ InPhase(sched, "saved")
  /\ UNCHANGED <<now, rot, health, dash>>
  /\ IF ~allObjects(sched.queued.routines) \/ ~allObjects(sched.queued.logs)
     THEN page' = "crashed" /\ sched' = Unmounted /\ UNCHANGED storage
     ELSE /\ page' = "scheduler"
          /\ sched' = sched.queued
          /\ storage' = SchedSaved(sched.queued)

rotFirstRender ==
  /\ page = "none"
  /\ page' = "mounting"
  /\ rot' = Rendered(RotInitialState)
  /\ UNCHANGED <<now, storage, sched, health, dash>>

rotLoadEffect ==
  LET sr == storage[KEY_ROUTINES]
      sl == storage[KEY_RT_LOGS]
  IN  /\ InPhase(rot, "rendered")
      /\ UNCHANGED <<now, storage, sched, health, dash>>
      /\ IF "throws" \in {loadOutcome(sr), loadOutcome(sl)}
         THEN page' = "crashed" /\ rot' = Unmounted
         ELSE /\ page' = page
              /\ rot' = [rot EXCEPT
                   !.phase = "loaded",
                   !.queued = [rot.state EXCEPT
                      !.routines = IF Truthy(sr) THEN JSON_parse(sr) ELSE @,
                      !.logs = IF Truthy(sl) THEN JSON_parse(sl) ELSE @]]

rotSaveEffect ==
  /\ InPhase(rot, "loaded")
  /\ rot' = [rot EXCEPT !.phase = "saved"]
  /\ storage' = RotSaved(rot.state)
  /\ UNCHANGED <<now, page, sched, health, dash>>

rotReRender ==
  /\ InPhase(rot, "saved")
  /\ UNCHANGED <<now, sched, health, dash>>
  /\ IF ~allObjects(rot.queued.routines) \/ ~allObjects(rot.queued.logs)
     THEN page' = "crashed" /\ rot' = Unmounted /\ UNCHANGED storage
     ELSE /\ page' = "rotation"
          /\ rot' = RotRender(rot.queued)
          /\ storage' = RotSaved(rot.queued)

healthFirstRender ==
  /\ page = "none"
  /\ page' = "mounting"
  /\ health' = Rendered(HealthInitialState)
  /\ UNCHANGED <<now, storage, sched, rot, dash>>

\* the guarded load effect: try / catch and Array.isArray
healthLoadEffect ==
  LET raw == storage[KEY_HEALTH]
      isArray == Truthy(raw) /\ ~parseThrows(raw) /\ parsesToArray(raw)
  IN  /\ InPhase(health, "rendered")
      /\ health' = [health EXCEPT
           !.phase = "loaded",
           !.queued = [health.state EXCEPT
              !.entries = IF isArray THEN JSON_parse(raw) ELSE @]]
      /\ UNCHANGED <<now, page, storage, sched, rot, dash>>

healthSaveEffect ==
  /\ InPhase(health, "loaded")
  /\ health' = [health EXCEPT !.phase = "saved"]
  /\ storage' = saveEntries(health.state)
  /\ UNCHANGED <<now, page, sched, rot, dash>>

healthReRender ==
  /\ InPhase(health, "saved")
  /\ UNCHANGED <<now, sched, rot, dash>>
  /\ IF ~allObjects(health.queued.entries)
     THEN page' = "crashed" /\ health' = Unmounted /\ UNCHANGED storage
     ELSE /\ page' = "health"
          /\ health' = health.queued
          /\ storage' = saveEntries(health.queued)

(***************************************************************************)
(* The rotation page alone, on a browser whose storage is empty            *)
(***************************************************************************)
\* The spots, dates and times the user picks
ClickSpots == {SPOTS[1], SPOTS[7]}
SheetDays == {toYMD(T0) - 10000}

InitFresh ==
  /\ now = T0
  /\ page = "none"
  /\ storage = [k \in StorageKeys |-> NoItem]
  /\ sched = Unmounted
  /\ rot = Unmounted
  /\ health = Unmounted
  /\ dash = Unmounted

NextRotation ==
  \/ MountRotation
  \/ ReloadRotation
  \/ Unmount
  \/ \E v \in Views : setView(v)
  \/ \E spot \in ClickSpots : openSheet(spot)
  \/ closeSheet
  \/ \E ymd \in SheetDays : setSheetDateYMD(ymd)
  \/ logInjection
  \/ \E id \in T0..(T0 + MaxTicks) : rotDeleteLog(id)
  \/ Tick

SpecRotation == InitFresh /\ [][NextRotation]_vars

(***************************************************************************)
(* The whole app, one page mounted at a time, on a browser whose storage   *)
(* is empty                                                                *)
(***************************************************************************)
\* the records a stored item holds
storedRecords(raw) == IF raw.kind = "array" THEN raw.items ELSE <<>>

TotalRecords ==
  Len(storedRecords(storage[KEY_DS_LOGS]))
    + Len(storedRecords(storage[KEY_RT_LOGS]))
    + Len(storedRecords(storage[KEY_HEALTH]))

AppSpots == {SPOTS[1]}
WeightTexts == {<<"7">>}
OpenDays == {toYMD(T0)}
DeletedRoutines == {RoutineId(1)}

NextApp ==
  \/ MountScheduler
  \/ ReloadScheduler
  \/ MountRotation
  \/ ReloadRotation
  \/ MountHealth
  \/ ReloadHealth
  \/ MountDashboard
  \/ Unmount
  \/ Tick
  \/ TotalRecords < MaxRecords /\ logMainForm
  \/ \E ymd \in OpenDays : openDay(ymd)
  \/ closeDay
  \/ \E id \in T0..(T0 + MaxTicks) : schedDeleteLog(id)
  \/ \E id \in DeletedRoutines : deleteRoutine(id)
  \/ schedToastTimeout
  \/ \E spot \in AppSpots : openSheet(spot)
  \/ TotalRecords < MaxRecords /\ logInjection
  \/ \E id \in T0..(T0 + MaxTicks) : rotDeleteLog(id)
  \/ \E text \in WeightTexts : setWeightKg(text)
  \/ TotalRecords < MaxRecords /\ saveEntry
  \/ \E ymd \in OpenDays : healthOpenDay(ymd)
  \/ \E id \in T0..(T0 + MaxTicks) : deleteEntry(id)
  \/ healthToastTimeout

SpecApp == InitFresh /\ [][NextApp]_vars

(***************************************************************************)
(* The two pages that log doses and injections, with the routine editor    *)
(***************************************************************************)
EditedRoutines == {RoutineId(1)}
RoutineNames == {<<"Custom", 1>>}

NextLogging ==
  \/ MountScheduler
  \/ ReloadScheduler
  \/ MountRotation
  \/ Unmount
  \/ Tick
  \/ TotalRecords < MaxRecords /\ logMainForm
  \/ \E ymd \in OpenDays : openDay(ymd)
  \/ \E id \in T0..(T0 + MaxTicks) : schedDeleteLog(id)
  \/ \E id \in EditedRoutines, name \in RoutineNames : setRoutineName(id, name)
  \/ page = "scheduler" /\ Len(sched.routines) < MaxRoutines /\ addRoutine
  \/ \E id \in DeletedRoutines : deleteRoutine(id)
  \/ \E spot \in AppSpots : openSheet(spot)
  \/ TotalRecords < MaxRecords /\ logInjection
  \/ \E id \in T0..(T0 + MaxTicks) : rotDeleteLog(id)

SpecLogging == InitFresh /\ [][NextLogging]_vars

(***************************************************************************)
(* The scheduler's two forms: the quick log and the day sheet              *)
(***************************************************************************)
AmountTexts == {<<"5">>, <<"a">>}
PresetAmounts == {<<"1">>}

NextForms ==
  \/ MountScheduler
  \/ Unmount
  \/ Tick
  \/ \E text \in AmountTexts : setCustomAmountMg(text)
  \/ TotalRecords < MaxRecords /\ logMainForm
  \/ \E ymd \in OpenDays : openDay(ymd)
  \/ closeDay
  \/ \E text \in AmountTexts : setDayCustomMg(text)
  \/ \E mg \in PresetAmounts : pickPresetDose(mg)
  \/ pickCustomDose
  \/ TotalRecords < MaxRecords /\ confirmLogNow
  \/ schedToastTimeout

SpecForms == InitFresh /\ [][NextForms]_vars

(***************************************************************************)
(* Mounting the pages on a browser whose storage holds anything            *)
(***************************************************************************)
StoredItems ==
  {NoItem, EmptyItem, GarbageItem, ObjectItem, ArrayItem(<<>>), ArrayItem(<<JsonNull>>)}

InitAnyStorage ==
  /\ now = T0
  /\ page = "none"
  /\ storage \in [StorageKeys -> StoredItems]
  /\ Cardinality({k \in StorageKeys : storage[k] # NoItem}) <= MaxMalformed
  /\ sched = Unmounted
  /\ rot = Unmounted
  /\ health = Unmounted
  /\ dash = Unmounted

NextMount ==
  \/ MountScheduler
  \/ MountRotation
  \/ MountHealth
  \/ MountDashboard
  \/ Unmount

SpecMalformed == InitAnyStorage /\ [][NextMount]_vars

(***************************************************************************)
(* Mounting the pages on a browser whose storage holds the records of      *)
(* earlier sessions                                                        *)
(***************************************************************************)
SeqsUpTo(S, n) == UNION {[1..k -> S] : k \in 0..n}

\* the records the pages write, as JSON keeps them
storedDose(iso, id) ==
  stringifyObject([doseItem(SchedInitialState, T0, AMOUNT_DEFAULT, RoutineId(1))
                     EXCEPT !.id = id, !.doseDateTime = iso])
storedInjection(iso, id) ==
  stringifyObject([injectionItem([RotInitialState EXCEPT !.selectedSpotId = SPOTS[1].id])
                     EXCEPT !.id = id, !.injectedAtISO = iso])
storedEntry(iso, id) ==
  stringifyObject([healthItem(HealthInitialState) EXCEPT !.id = id, !.dateTimeISO = iso])
\* the HealthLog records the dashboard reads under hb_logs_v1
storedHealthLog(iso, id) ==
  [id |-> id,
   ymd |-> toYMD(getTime(iso)),
   timeHHMM |-> timeOfDay(getTime(iso)),
   createdAtISO |-> ISO(now)]

StorageOf(isos) ==
  LET valid == SelectSeq(isos, validISO)
      idOf(i) == T0 - 100 + i
  IN  [k \in StorageKeys |->
         IF k = KEY_ROUTINES THEN NoItem
         ELSE IF k = KEY_DS_LOGS \/ k = KEY_DASH_DOSES
              THEN ArrayItem([i \in DOMAIN isos |-> storedDose(isos[i], idOf(i))])
         ELSE IF k = KEY_RT_LOGS
              THEN ArrayItem([i \in DOMAIN isos |-> storedInjection(isos[i], idOf(i))])
         ELSE IF k = KEY_HEALTH
              THEN ArrayItem([i \in DOMAIN isos |-> storedEntry(isos[i], idOf(i))])
         ELSE ArrayItem([i \in DOMAIN valid |-> storedHealthLog(valid[i], idOf(i))])]

InitStored(isoSet) ==
  /\ now = T0
  /\ page = "none"
  /\ \E isos \in SeqsUpTo(isoSet, MaxStored) : storage = StorageOf(isos)
  /\ sched = Unmounted
  /\ rot = Unmounted
  /\ health = Unmounted
  /\ dash = Unmounted

\* yesterday 08:00 and 20:00, today 08:00
StoredTimes == {ISO(T0 - 16), ISO(T0 - 4), ISO(T0 + 8)}
InitCalendar == InitStored(StoredTimes)

\* the pages that bucket their records by day
NextCalendar ==
  \/ MountScheduler
  \/ MountHealth
  \/ MountDashboard
  \/ Unmount

SpecCalendar == InitCalendar /\ [][NextCalendar]_vars

\* a timestamp that does not parse among the stored ones
InitInvalidTime == InitStored({ISO(T0 - 16), ISO(T0 + 8), InvalidISO})
SpecInvalidTime == InitInvalidTime /\ [][NextCalendar]_vars

(***************************************************************************)
(* Moving the calendars: the month grids and the week view                 *)
(***************************************************************************)
NextCalendarNav ==
  \/ MountScheduler
  \/ MountHealth
  \/ MountDashboard
  \/ Unmount
  \/ \E delta \in {-1, 1} : schedSetCalendarMonth(delta)
  \/ schedCalendarToday
  \/ \E delta \in {-1, 1} : healthSetCalendarMonth(delta)
  \/ \E delta \in {-1, 1} : dashSetCalendarMonth(delta)
  \/ \E days \in {-7, 7} : dashSetWeekAnchor(days)
  \/ dashJumpToday

SpecCalendarNav == InitFresh /\ [][NextCalendarNav]_vars

(***************************************************************************)
(* The scheduler with its routine editor                                   *)
(***************************************************************************)
ReconstitutedDays == {toYMD(T0)}

NextRoutines ==
  \/ MountScheduler
  \/ ReloadScheduler
  \/ Unmount
  \/ Tick
  \/ TotalRecords < MaxRecords /\ logMainForm
  \/ \E ymd \in OpenDays : openDay(ymd)
  \/ \E id \in T0..(T0 + MaxTicks) : schedDeleteLog(id)
  \/ \E id \in EditedRoutines, name \in RoutineNames : setRoutineName(id, name)
  \/ \E id \in EditedRoutines, ymd \in ReconstitutedDays :
       setRoutineReconstitutedOn(id, ymd)
  \/ page = "scheduler" /\ Len(sched.routines) < MaxRoutines /\ addRoutine
  \/ \E id \in DeletedRoutines : deleteRoutine(id)

SpecRoutines == InitFresh /\ [][NextRoutines]_vars

(***************************************************************************)
(* The rotation page with injections logged within the last two days       *)
(***************************************************************************)
RecentDays == {toYMD(T0) - 1}
RecentHours == {1, 13}

NextStaleness ==
  \/ MountRotation
  \/ Unmount
  \/ \E spot \in ClickSpots : openSheet(spot)
  \/ \E ymd \in RecentDays : setSheetDateYMD(ymd)
  \/ \E hhmm \in RecentHours : setSheetTimeHHMM(hhmm)
  \/ logInjection
  \/ \E id \in T0..(T0 + MaxTicks) : rotDeleteLog(id)
  \/ Tick

SpecStaleness == InitFresh /\ [][NextStaleness]_vars

(***************************************************************************)
(* The dashboard over stored doses, injections and health logs, late in    *)
(* the evening                                                             *)
(***************************************************************************)
\* the day before T0 at 20:00, the day of T0 at 06:00 and 08:00
DoseTimes == {ISO(T0 - 4), ISO(T0 + 8)}
InjectionTimes == {ISO(T0 + 6), ISO(T0 + 8)}
HealthTimes == {ISO(T0 - 4), ISO(T0 + 6)}

TimelineStorage(doseIsos, injIsos, healthIsos) ==
  [k \in StorageKeys |->
     IF k = KEY_DASH_DOSES
     THEN ArrayItem([i \in DOMAIN doseIsos |-> storedDose(doseIsos[i], T0 - 100 + i)])
     ELSE IF k = KEY_RT_LOGS
     THEN ArrayItem([i \in DOMAIN injIsos |-> storedInjection(injIsos[i], T0 - 100 + i)])
     ELSE IF k = KEY_DASH_HEALTH
     THEN ArrayItem([i \in DOMAIN healthIsos |->
                       storedHealthLog(healthIsos[i], T0 - 100 + i)])
     ELSE NoItem]

\* 23:00 of the day before T0
InitTimeline ==
  /\ now = T0 - 1
  /\ page = "none"
  /\ \E d \in SeqsUpTo(DoseTimes, MaxTimeline),
        i \in SeqsUpTo(InjectionTimes, MaxTimeline),
        h \in SeqsUpTo(HealthTimes, MaxTimeline) :
       storage = TimelineStorage(d, i, h)
  /\ sched = Unmounted
  /\ rot = Unmounted
  /\ health = Unmounted
  /\ dash = Unmounted

NextTimeline ==
  \/ MountDashboard
  \/ Unmount
  \/ \E f \in FilterModes : setFilter(f)
  \/ Tick

SpecTimeline == InitTimeline /\ [][NextTimeline]_vars

(***************************************************************************)
(* Mounting the pages effect by effect over the records of earlier         *)
(* sessions                                                                *)
(***************************************************************************)
NextMounting ==
  \/ schedFirstRender
  \/ schedLoadEffect
  \/ schedSaveEffects
  \/ schedReRender
  \/ rotFirstRender
  \/ rotLoadEffect
  \/ rotSaveEffect
  \/ rotReRender
  \/ healthFirstRender
  \/ healthLoadEffect
  \/ healthSaveEffect
  \/ healthReRender
  \/ Unmount

SpecMounting == InitCalendar /\ [][NextMounting]_vars

(***************************************************************************)
(* The routine editor: routines added and deleted, any of them             *)
(***************************************************************************)
ListedRoutines ==
  {RoutineId(n) : n \in 1..Len(DEFAULT_ROUTINES)}
    \cup {RoutineId(t) : t \in T0..(T0 + MaxTicks)}

NextRoutineList ==
  \/ MountScheduler
  \/ Unmount
  \/ Tick
  \/ \E id \in ListedRoutines : setSelectedRoutineId(id)
  \/ page = "scheduler" /\ Len(sched.routines) < MaxRoutines /\ addRoutine
  \/ \E id \in ListedRoutines : deleteRoutine(id)

SpecRoutineList == InitFresh /\ [][NextRoutineList]_vars

(***************************************************************************)
(* The scheduler's day sheet, opened for yesterday or tomorrow             *)
(***************************************************************************)
SheetDayChoices == {toYMD(T0) - 1, toYMD(T0) + 1}
\* midnight, 23:00 and the cleared input
DayTimes == {0, 23, NoDay}

NextDaySheet ==
  \/ MountScheduler
  \/ Unmount
  \/ Tick
  \/ \E ymd \in SheetDayChoices : openDay(ymd)
  \/ closeDay
  \/ \E hhmm \in DayTimes : setDayTime(hhmm)
  \/ \E mg \in PresetAmounts : pickPresetDose(mg)
  \/ TotalRecords < MaxRecords /\ confirmLogNow

SpecDaySheet == InitFresh /\ [][NextDaySheet]_vars

(***************************************************************************)
(* The toasts of the scheduler and of the health page.  A pending timer    *)
(* fires after 1100 ms: the timeouts are weakly fair.                      *)
(***************************************************************************)
NextToast ==
  \/ MountScheduler
  \/ MountHealth
  \/ Unmount
  \/ Tick
  \/ TotalRecords < MaxRecords /\ logMainForm
  \/ schedToastTimeout
  \/ \E text \in WeightTexts : setWeightKg(text)
  \/ TotalRecords < MaxRecords /\ saveEntry
  \/ clearForm
  \/ \E ymd \in OpenDays : healthOpenDay(ymd)
  \/ \E id \in T0..(T0 + MaxTicks) : deleteEntry(id)
  \/ healthToastTimeout

SpecToast ==
  /\ InitFresh
  /\ [][NextToast]_vars
  /\ WF_vars(schedToastTimeout)
  /\ WF_vars(healthToastTimeout)

(***************************************************************************)
(* Rotation recommendation                                                 *)
(***************************************************************************)
\* the injection times logged for a spot
UsedTimes(logs, spotId) ==
  {getTime(logs[i].injectedAtISO) : i \in {j \in DOMAIN logs : logs[j].spotId = spotId}}

MaxOf(S) == CHOOSE x \in S : \A y \in S : y <= x

\* spot a was last used strictly before spot b; a spot never used is earliest
UsedEarlier(logs, a, b) ==
  /\ UsedTimes(logs, b) # {}
  /\ \/ UsedTimes(logs, a) = {}
     \/ MaxOf(UsedTimes(logs, a)) < MaxOf(UsedTimes(logs, b))

\* the staleness values the page computed when it last evaluated the memo
ShownCandidates == candidatesOf(rot.view, rot.logs, rot.recommendedAt)

\* C1: whenever a spot of the current view has never been used, the
\* recommended spot is one that has never been used, whatever the last-used
\* times of the other spots.
C1_NeverUsedOutranks ==
  page = "rotation" =>
    LET spots == spotsForView(rot.view)
    IN  (\E i \in DOMAIN spots : UsedTimes(rot.logs, spots[i].id) = {})
          => UsedTimes(rot.logs, rot.recommended.s.id) = {}

\* C2: the recommended spot is the least recently used spot of the view: no
\* spot of the view was last used strictly earlier (never used is earliest).
C2_LeastRecentlyUsed ==
  page = "rotation" =>
    LET spots == spotsForView(rot.view)
    IN  \A i \in DOMAIN spots :
          ~UsedEarlier(rot.logs, spots[i].id, rot.recommended.s.id)

\* C3: the recommended spot is a spot of the current view and no candidate
\* of the view has a strictly larger days-since-last-use value than it.
C3_MaximalStaleness ==
  page = "rotation" =>
    /\ rot.recommended # Null
    /\ rot.recommended.s.view = rot.view
    /\ \E i \in DOMAIN ShownCandidates : ShownCandidates[i] = rot.recommended
    /\ \A i \in DOMAIN ShownCandidates : ShownCandidates[i].days <= rot.recommended.days

\* C3 witness: an injection is logged and a spot of the view is less stale
\* than the recommended one.
C3_Witness ==
  /\ page = "rotation"
  /\ rot.logs # <<>>
  /\ \E i \in DOMAIN ShownCandidates : ShownCandidates[i].days < rot.recommended.days

\* C4: among the spots of the view that are as stale as the recommended one,
\* the recommended one comes first in the catalog order.
C4_FirstOfTies ==
  page = "rotation" =>
    \E i \in DOMAIN ShownCandidates :
      /\ ShownCandidates[i] = rot.recommended
      /\ \A j \in DOMAIN ShownCandidates :
           ShownCandidates[j].days = rot.recommended.days => i <= j

\* C4 witness: a spot of the view has been used, and two other spots of the
\* view are both as stale as the recommended one.
C4_Witness ==
  /\ page = "rotation"
  /\ \E i \in DOMAIN ShownCandidates : UsedTimes(rot.logs, ShownCandidates[i].s.id) # {}
  /\ \E i, j \in DOMAIN ShownCandidates :
       /\ i # j
       /\ ShownCandidates[i].days = rot.recommended.days
       /\ ShownCandidates[j].days = rot.recommended.days

(***************************************************************************)
(* Routines, storage keys, ids                                             *)
(***************************************************************************)
\* C5: after deleteRoutine(id) takes effect, no log entry persisted in any
\* collection (dose logs and injection logs alike) has routineId = id.
C5_DeleteRoutineCascades ==
  [][\A id \in DeletedRoutines :
       (deleteRoutine(id) /\ Len(sched.routines) > 1)
         => \A k \in {KEY_DS_LOGS, KEY_RT_LOGS} :
              \A i \in DOMAIN storedRecords(storage'[k]) :
                 storedRecords(storage'[k])[i].routineId # id]_vars

\* C6: a record saved by its logging page is, once the dashboard is mounted,
\* present in the dashboard's by-day mapping of its kind under its day key.
InDayMap(map, day, id) ==
  /\ day \in DOMAIN map
  /\ \E j \in DOMAIN map[day] : map[day][j].id = id

C6_DashboardShowsSaved ==
  page = "dashboard" =>
    /\ \A i \in DOMAIN storedRecords(storage[KEY_DS_LOGS]) :
         LET l == storedRecords(storage[KEY_DS_LOGS])[i]
         IN  InDayMap(dosesByDay(dash.doseLogs), doseDay(l), l.id)
    /\ \A i \in DOMAIN storedRecords(storage[KEY_RT_LOGS]) :
         LET l == storedRecords(storage[KEY_RT_LOGS])[i]
         IN  InDayMap(injectionsByDay(dash.injLogs), ymdFromISO(l.injectedAtISO), l.id)
    /\ \A i \in DOMAIN storedRecords(storage[KEY_HEALTH]) :
         LET e == storedRecords(storage[KEY_HEALTH])[i]
         IN  InDayMap(healthByDay(dash.healthLogs), entryDay(e), e.id)

\* C7: no two records of a log collection share an id, also when the clock
\* returns the same value for consecutive creations.
DistinctIds(items) ==
  \A i, j \in DOMAIN items : i # j => items[i].id # items[j].id

C7_UniqueIds ==
  /\ page = "scheduler" => DistinctIds(sched.logs)
  /\ page = "rotation" => DistinctIds(rot.logs)
  /\ page = "health" => DistinctIds(health.entries)

(***************************************************************************)
(* Persistence                                                             *)
(***************************************************************************)
\* C8: once a handler and its effects have completed, the value stored under
\* each key the page saves equals the serialization of the page's in-memory
\* collection.
C8_StorageMirrorsMemory ==
  /\ page = "scheduler" =>
       /\ storage[KEY_ROUTINES] = JSON_stringify(sched.routines)
       /\ storage[KEY_DS_LOGS] = JSON_stringify(sched.logs)
  /\ page = "rotation" => storage[KEY_RT_LOGS] = JSON_stringify(rot.logs)
  /\ page = "health" => storage[KEY_HEALTH] = JSON_stringify(health.entries)

\* C8 witness: the scheduler after a routine was deleted and a dose logged
C8_Witness ==
  /\ page = "scheduler"
  /\ Len(sched.routines) < Len(DEFAULT_ROUTINES)
  /\ sched.logs # <<>>

\* C9: reloading a page (unmount, then a fresh mount) yields a collection
\* with the same ids and field values in the same order, for every length
\* including 0.
SameRecords(a, b) ==
  /\ Len(a) = Len(b)
  /\ \A i \in DOMAIN a :
       \A f \in DOMAIN a[i] \cup DOMAIN b[i] : Field(a[i], f) = Field(b[i], f)

C10_MountNeverCrashes == page # "crashed"

(***************************************************************************)
(* Form validation                                                         *)
(***************************************************************************)
\* an amount text that is neither blank nor a number
NonNumeric(text) == trim(text) # <<>> /\ ~isValidMgText(text)

\* C11: submitting a non-numeric dose amount, through the quick-log custom
\* field or through the day sheet's custom field, saves nothing and leaves
\* the log collection unchanged.
C11_InvalidAmountIsNoOp ==
  [][/\ (logMainForm /\ NonNumeric(sched.customAmountMg))
          => (sched'.logs = sched.logs /\ storage' = storage)
     /\ (pickCustomDose /\ NonNumeric(sched.dayCustomMg))
          => (sched' = sched /\ storage' = storage)]_vars

(***************************************************************************)
(* Day bucketing                                                           *)
(***************************************************************************)
Count(items, x) == Cardinality({i \in DOMAIN items : items[i] = x})

\* map holds every record of items exactly once, under the key of the record
Partitions(map, items, keyField) ==
  /\ \A i \in DOMAIN items :
       LET x == items[i]
           key == IF keyField = "ymd" THEN x.ymd ELSE dayKeyOfISO(x[keyField])
       IN  /\ key \in DOMAIN map
           /\ Count(map[key], x) = Count(items, x)
           /\ \A d \in DOMAIN map : d # key => Count(map[d], x) = 0
  /\ \A d \in DOMAIN map : \A j \in DOMAIN map[d] : Count(items, map[d][j]) > 0

\* C12: every by-day mapping is a partition of its input: each record is in
\* exactly one bucket, exactly once, under the day key of its own timestamp.
C12_BucketsPartition ==
  /\ page = "scheduler" => Partitions(logsByDay(sched.logs), sched.logs, "doseDateTime")
  /\ page = "health" => Partitions(entriesByDay(health.entries), health.entries, "dateTimeISO")
  /\ page = "dashboard" =>
       /\ Partitions(dosesByDay(dash.doseLogs), dash.doseLogs, "doseDateTime")
       /\ Partitions(injectionsByDay(dash.injLogs), dash.injLogs, "injectedAtISO")
       /\ Partitions(healthByDay(dash.healthLogs), dash.healthLogs, "ymd")

\* C12 witness: the dashboard shows doses on two days, two of them on one day
C12_Witness ==
  /\ page = "dashboard"
  /\ \E d1, d2 \in DOMAIN dosesByDay(dash.doseLogs) :
       d1 # d2 /\ Len(dosesByDay(dash.doseLogs)[d1]) >= 2

\* the records of every day are in ascending order of time
AscendingISO(map, f) ==
  \A d \in DOMAIN map : \A j \in 1..(Len(map[d]) - 1) :
     getTime(map[d][j][f]) <= getTime(map[d][j + 1][f])

\* C13: in every by-day mapping the records of each day are sorted ascending
\* by time of day.
C13_BucketsAscending ==
  /\ page = "scheduler" => AscendingISO(logsByDay(sched.logs), "doseDateTime")
  /\ page = "health" => AscendingISO(entriesByDay(health.entries), "dateTimeISO")
  /\ page = "dashboard" =>
       /\ AscendingISO(dosesByDay(dash.doseLogs), "doseDateTime")
       /\ AscendingISO(injectionsByDay(dash.injLogs), "injectedAtISO")
       /\ \A d \in DOMAIN healthByDay(dash.healthLogs) :
            \A j \in 1..(Len(healthByDay(dash.healthLogs)[d]) - 1) :
               healthByDay(dash.healthLogs)[d][j].timeHHMM
                 <= healthByDay(dash.healthLogs)[d][j + 1].timeHHMM

\* no bucket holds a record whose timestamp does not parse
NoInvalidBucketed(map, f) ==
  \A d \in DOMAIN map : \A j \in DOMAIN map[d] : validISO(map[d][j][f])

\* C14: a record whose timestamp cannot be parsed is surfaced as an error;
\* it is not placed in a bucket under a coerced day key.
C14_InvalidTimestampSurfaced ==
  /\ page = "scheduler" => NoInvalidBucketed(logsByDay(sched.logs), "doseDateTime")
  /\ page = "health" => NoInvalidBucketed(entriesByDay(health.entries), "dateTimeISO")
  /\ page = "dashboard" =>
       /\ NoInvalidBucketed(dosesByDay(dash.doseLogs), "doseDateTime")
       /\ NoInvalidBucketed(injectionsByDay(dash.injLogs), "injectedAtISO")

(***************************************************************************)
(* Month grid and week view                                                *)
(***************************************************************************)
CalendarPages == {"scheduler", "health", "dashboard"}

\* the month the mounted page displays, and the grid it renders
ShownMonth ==
  IF page = "scheduler" THEN sched.calendarMonth
  ELSE IF page = "health" THEN health.calendarMonth
  ELSE dash.calendarMonth

ShownCells ==
  IF page = "dashboard" THEN monthGrid(dash.calendarMonth)
  ELSE calendarCells(ShownMonth)

\* (weekday of the 1st, Sunday = 0, plus 6) mod 7
leadingBlanks(cm) == (getDay(dayNumber(cm.year, cm.month, 1)) + 6) % 7
\* the days from the 1st of the month to the 1st of the next month
monthLength(cm) ==
  dayNumber(newMonth(cm.year, cm.month + 1).year, newMonth(cm.year, cm.month + 1).month, 1)
    - dayNumber(cm.year, cm.month, 1)

\* C15: the month grid has 7 * ceil((leadingBlanks + daysInMonth) / 7) cells:
\* a multiple of 7 that covers the leading blanks and every day of the month
\* and has no whole blank week after them.
C15_MonthGridWholeWeeks ==
  page \in CalendarPages =>
    LET n == Len(ShownCells)
        k == leadingBlanks(ShownMonth) + monthLength(ShownMonth)
    IN  n % 7 = 0 /\ n >= k /\ n - k < 7

\* C15 witness: a 30-day month that starts on a Wednesday has 35 cells
C15_Witness ==
  /\ page \in CalendarPages
  /\ monthLength(ShownMonth) = 30
  /\ getDay(dayNumber(ShownMonth.year, ShownMonth.month, 1)) = 3
  /\ leadingBlanks(ShownMonth) = 2
  /\ Len(ShownCells) = 35

\* C16: the non-blank cells of the month grid are the days 1..daysInMonth in
\* order from index leadingBlanks, each with its day number and the key of
\* that day of the displayed month; every other cell has neither.
C16_MonthGridDays ==
  page \in CalendarPages =>
    \A i \in DOMAIN ShownCells :
       LET d == i - leadingBlanks(ShownMonth)
           cell == ShownCells[i]
       IN  IF d >= 1 /\ d <= monthLength(ShownMonth)
           THEN /\ DOMAIN cell = {"ymd", "dayNum"}
                /\ cell.dayNum = d
                /\ getFullYear(cell.ymd) = ShownMonth.year
                /\ getMonth(cell.ymd) = ShownMonth.month
                /\ getDate(cell.ymd) = d
           ELSE DOMAIN cell = {}

\* C16 witness: February of a leap year is displayed, with a cell for day 29
C16_Witness ==
  /\ page \in CalendarPages
  /\ ShownMonth.month = 1
  /\ \E i \in DOMAIN ShownCells :
       "dayNum" \in DOMAIN ShownCells[i] /\ ShownCells[i].dayNum = 29

\* C17: the week view has exactly 7 cells, consecutive calendar days from the
\* Monday of the anchor's week, one of them the anchor's day.
C17_WeekView ==
  page = "dashboard" =>
    LET w == weekDays(dash.weekAnchor)
    IN  /\ Len(w) = 7
        /\ getDay(w[1].ymd) = 1
        /\ \A i \in 1..6 : w[i + 1].ymd = w[i].ymd + 1
        /\ \E i \in 1..7 : w[i].ymd = toYMD(dash.weekAnchor)
        /\ \A i \in 1..7 : toYMD(w[i].date) = w[i].ymd

\* C17 witness: the displayed week crosses a year boundary
C17_Witness ==
  /\ page = "dashboard"
  /\ getFullYear(weekDays(dash.weekAnchor)[1].ymd)
       # getFullYear(weekDays(dash.weekAnchor)[7].ymd)

(***************************************************************************)
(* Staleness                                                               *)
(***************************************************************************)
\* the time since the last use the page takes for a used spot of the view
SinceLastUse(spotId) == rot.recommendedAt - getTime(lastUsedBySpot(rot.logs)[spotId])

\* C18: the staleness of a used spot is the whole number of elapsed days,
\* floor((now - lastUsed) / one day): truncated, not rounded, so 0 for every
\* use less than 24 hours before now.
C18_StalenessFloors ==
  page = "rotation" =>
    \A i \in DOMAIN ShownCandidates :
       LET c == ShownCandidates[i]
       IN  c.s.id \in DOMAIN lastUsedBySpot(rot.logs) =>
             /\ c.days * TicksPerDay <= SinceLastUse(c.s.id)
             /\ SinceLastUse(c.s.id) < (c.days + 1) * TicksPerDay
             /\ (0 <= SinceLastUse(c.s.id) /\ SinceLastUse(c.s.id) < TicksPerDay)
                  => c.days = 0

\* C18 witness: a spot was last used 23 hours before the page read the clock
C18_Witness ==
  /\ page = "rotation"
  /\ \E i \in DOMAIN ShownCandidates :
       /\ ShownCandidates[i].s.id \in DOMAIN lastUsedBySpot(rot.logs)
       /\ SinceLastUse(ShownCandidates[i].s.id) = TicksPerDay - 1
       /\ ShownCandidates[i].days = 0

(***************************************************************************)
(* Dose logs are immutable                                                 *)
(***************************************************************************)
\* a is b with some elements left out
RECURSIVE IsSubseq(_, _)
IsSubseq(a, b) ==
  IF a = <<>> THEN TRUE
  ELSE IF b = <<>> THEN FALSE
  ELSE IF Head(a) = Head(b) THEN IsSubseq(Tail(a), Tail(b))
  ELSE IsSubseq(a, Tail(b))

\* every record of after is a record of before, field for field, but for one
\* new record at the head
RecordsKept(before, after) ==
  \/ IsSubseq(after, before)
  \/ after # <<>> /\ Tail(after) = before

\* C19: no operation of the scheduler (add a log, delete a log, rename a
\* routine, set a routine's reconstitution date, add or delete a routine,
\* reload, leaving and reopening the page) changes a field of a dose log that
\* survives it, in memory or in storage.
C19_RecordsNeverMutated ==
  [][/\ RecordsKept(storedRecords(storage[KEY_DS_LOGS]),
                    storedRecords(storage'[KEY_DS_LOGS]))
     /\ (page = "scheduler" /\ page' = "scheduler")
          => RecordsKept(sched.logs, sched'.logs)
     /\ (page # "scheduler" /\ page' = "scheduler")
          => RecordsKept(storedRecords(storage[KEY_DS_LOGS]), sched'.logs)]_vars

\* C19 witness: a kept log carries the name its routine had when it was
\* logged, after the routine was renamed and given a reconstitution date
C19_Witness ==
  /\ page = "scheduler"
  /\ \E i \in DOMAIN sched.logs, j \in DOMAIN sched.routines :
       /\ sched.logs[i].routineId = sched.routines[j].id
       /\ sched.logs[i].routineName # sched.routines[j].name
       /\ "reconstitutedOn" \in DOMAIN sched.routines[j]
       /\ sched.logs[i] \in {storedRecords(storage[KEY_DS_LOGS])[k] :
                               k \in DOMAIN storedRecords(storage[KEY_DS_LOGS])}

(***************************************************************************)
(* The recommendation is a function of its inputs                          *)
(***************************************************************************)
\* the inputs of the recommended memo: the view, the log history and the
\* clock it read
RecommendationInputs(st) == <<st.view, st.logs, st.recommendedAt>>

C21_LastUsedIsLatest ==
  page = "rotation" =>
    \A k \in DOMAIN SPOTS :
      LET id == SPOTS[k].id
          m == lastUsedBySpot(rot.logs)
      IN  /\ id \in DOMAIN m <=> UsedTimes(rot.logs, id) # {}
          /\ id \in DOMAIN m => getTime(m[id]) = MaxOf(UsedTimes(rot.logs, id))

(***************************************************************************)
(* Deleting a record                                                       *)
(***************************************************************************)
\* after is before with exactly one record left out
RemovesOne(before, after) ==
  /\ Len(after) = Len(before) - 1
  /\ IsSubseq(after, before)

\* C22: deleting a log by its id removes exactly one record and leaves every
\* other record present, in the same relative order, on the scheduler, the
\* rotation page and the health page.
C22_DeleteRemovesOne ==
  [][\A id \in T0..(T0 + MaxTicks) :
       /\ schedDeleteLog(id) => RemovesOne(sched.logs, sched'.logs)
       /\ rotDeleteLog(id) => RemovesOne(rot.logs, rot'.logs)
       /\ deleteEntry(id) => RemovesOne(health.entries, health'.entries)]_vars

(***************************************************************************)
(* Newest first                                                            *)
(***************************************************************************)
\* the ids do not increase from head to tail
IdsNonIncreasing(logs) ==
  \A i, j \in DOMAIN logs : i < j => logs[i].id >= logs[j].id

\* after is before with one record, created now, in front of it
CreatedAtHead(before, after) ==
  /\ after # <<>>
  /\ Head(after).id = now
  /\ Tail(after) = before

\* the log collection of the mounted page, if it keeps one
MountedLogs ==
  IF page = "scheduler" THEN sched.logs
  ELSE IF page = "rotation" THEN rot.logs
  ELSE IF page = "health" THEN health.entries
  ELSE <<>>

\* C23: each log collection is held newest-first: a create operation puts the
\* new record at index 0 in front of the records there were, and after any
\* sequence of creates and deletes from an empty collection the ids do not
\* increase from head to tail.
C23_NewestFirst ==
  [][/\ IdsNonIncreasing(MountedLogs)'
     /\ ((logMainForm \/ confirmLogNow \/ logInjection \/ saveEntry)
           /\ MountedLogs' # MountedLogs)
          => CreatedAtHead(MountedLogs, MountedLogs')]_vars

\* C23 witness: the scheduler holds a dose logged after another one, in front
\* of it
C23_Witness ==
  /\ page = "scheduler"
  /\ Len(sched.logs) = 2
  /\ sched.logs[1].id > sched.logs[2].id

(***************************************************************************)
(* The dashboard's today timeline                                          *)
(***************************************************************************)
TimelineKinds == {"dose", "inj", "health"}

\* the filter keeps the items of kind k
Selects(f, k) == f = "all" \/ kindOfFilter(f) = k

\* the times of the records of kind k that the dashboard holds for a day
\* (one per record: the set is indexed by the record's position)
RecordsOn(st, k, ymd) ==
  IF k = "dose"
  THEN {<<i, getTime(st.doseLogs[i].doseDateTime)>> :
          i \in {j \in DOMAIN st.doseLogs : ymdFromISO(st.doseLogs[j].doseDateTime) = ymd}}
  ELSE IF k = "inj"
  THEN {<<i, getTime(st.injLogs[i].injectedAtISO)>> :
          i \in {j \in DOMAIN st.injLogs : ymdFromISO(st.injLogs[j].injectedAtISO) = ymd}}
  ELSE {<<i, dateOf(ymd, st.healthLogs[i].timeHHMM)>> :
          i \in {j \in DOMAIN st.healthLogs : st.healthLogs[j].ymd = ymd}}

\* timeline lists, of each kind f selects, the records of the day once each
\* and nothing else, in ascending order of time
ListsDay(timeline, st, f, ymd) ==
  /\ \A k \in TimelineKinds :
       \A t \in (T0 - TicksPerDay)..(T0 + TicksPerDay) :
         Cardinality({i \in DOMAIN timeline :
                        timeline[i].kind = k /\ getTime(timeline[i].timeISO) = t})
           = IF Selects(f, k)
             THEN Cardinality({r \in RecordsOn(st, k, ymd) : r[2] = t})
             ELSE 0
  /\ \A i \in DOMAIN timeline :
       /\ timeline[i].kind \in TimelineKinds
       /\ getTime(timeline[i].timeISO) \in (T0 - TicksPerDay)..(T0 + TicksPerDay)
  /\ \A i, j \in DOMAIN timeline :
       i < j => getTime(timeline[i].timeISO) <= getTime(timeline[j].timeISO)

\* C24: for every filter value the dashboard's today timeline lists exactly
\* today's entries of the kinds the filter selects, each once, merged across
\* kinds in ascending order of time, and dayTotal of today is their number.
C24_TodayTimeline ==
  page = "dashboard" =>
    /\ ListsDay(todayTimeline(dash), dash, dash.filter, toYMD(now))
    /\ dayTotal(dash, toYMD(now)) = Len(todayTimeline(dash))

(***************************************************************************)
(* Mounting over persisted data                                            *)
(***************************************************************************)
\* the keys under which the pages keep their log collections
LogKeys == {KEY_DS_LOGS, KEY_RT_LOGS, KEY_HEALTH}

\* C25: mounting a page never overwrites persisted data with the initial
\* in-memory state: no step of a mount (first render, load effect, save
\* effect, re-render) takes a persisted record out of the value stored under
\* a log key.
C25_MountKeepsPersisted ==
  [][(page = "mounting" \/ page' = "mounting")
       => \A k \in LogKeys :
            IsSubseq(storedRecords(storage[k]), storedRecords(storage'[k]))]_vars

(***************************************************************************)
(* The scheduler's routines                                                *)
(***************************************************************************)
RoutineIds(routines) == {routines[i].id : i \in DOMAIN routines}

\* C26: on the scheduler the selected routine is always an existing one:
\* selectedRoutineId and dayRoutineId are ids of routines in the current
\* routine list, after mount and after any select, addRoutine, deleteRoutine.
C26_SelectedRoutineExists ==
  page = "scheduler" =>
    /\ sched.selectedRoutineId \in RoutineIds(sched.routines)
    /\ sched.dayRoutineId \in RoutineIds(sched.routines)

\* C27: the routine list never becomes empty through user operations: from
\* a non-empty list every addRoutine and deleteRoutine leaves at least one
\* routine, and deleteRoutine on the only remaining routine changes nothing.
C27_RoutinesNeverEmpty ==
  [][/\ (page = "scheduler" /\ page' = "scheduler" /\ sched.routines # <<>>)
          => sched'.routines # <<>>
     /\ \A id \in ListedRoutines :
          (deleteRoutine(id) /\ Len(sched.routines) = 1)
            => (sched' = sched /\ storage' = storage)]_vars

(***************************************************************************)
(* The scheduler's day sheet                                               *)
(***************************************************************************)
\* confirmLogNow has added a log in this step
Confirmed == confirmLogNow /\ sched'.logs # sched.logs

\* the days under which a by-day map holds the record
BucketsOf(map, x) == {d \in DOMAIN map : \E i \in DOMAIN map[d] : map[d][i] = x}

C29_PickedDoseLoggedOnce ==
  [][/\ confirmLogNow =>
          IF sched.selectedDayYMD = NoDay \/ sched.pendingMg = Undefined
          THEN sched'.logs = sched.logs /\ storage' = storage
          ELSE /\ Len(sched'.logs) = Len(sched.logs) + 1
               /\ Tail(sched'.logs) = sched.logs
               /\ Head(sched'.logs).amountMg = sched.pendingMg
               /\ sched'.pendingMg = Undefined
     /\ (/\ page = "scheduler"
         /\ page' = "scheduler"
         /\ sched'.pendingMg # Undefined
         /\ sched'.pendingMg # sched.pendingMg)
          => (pickCustomDose \/ \E mg \in PresetAmounts : pickPresetDose(mg))]_vars

\* C29 witness: a preset dose was picked and confirmed on the open day
\* sheet; no dose is pending any more
C29_Witness ==
  /\ page = "scheduler"
  /\ sched.selectedDayYMD # NoDay
  /\ sched.pendingMg = Undefined
  /\ sched.logs # <<>>
  /\ Head(sched.logs).amountMg \in PresetAmounts
  /\ doseDay(Head(sched.logs)) = sched.selectedDayYMD

(***************************************************************************)
(* Toasts                                                                  *)
(***************************************************************************)
SchedToastShown == page = "scheduler" /\ sched.toast # NullId
HealthToastShown == page = "health" /\ health.toast # NullId

====
